---- MODULE Spec2Model ----
(***************************************************************************)
(* never_primp: RClient (src/src/lib.rs) and load_ca_certs                 *)
(* (src/src/utils.rs).                                                     *)
(*                                                                         *)
(* The specifications of this module share one list of variables:          *)
(*   SpecCookies    the cookie management surface (jar + tombstone set)    *)
(*   SpecClient     configuration setters, rebuild_client and the handle   *)
(*                  lock as requests obtain the handle and send            *)
(*   SpecHeaders    the per-request header ordering of RClient::request    *)
(*   SpecBody       the request body kinds and their content types         *)
(*   SpecOverrides  per-request overrides of auth, timeout and cookies     *)
(*   SpecUpdate     headers_update and ordered_headers_update              *)
(*   SpecRace       cookie operations of two threads, step by step         *)
(*   SpecJar        cookie operations followed by a request                *)
(*   SpecCerts      clients of one process and the cached trust store      *)
(*   SpecWire       ordered headers whose keys differ only in letter case  *)
(*   SpecStore      cookie operations between configuration calls          *)
(*   SpecFrame      requests between configuration calls and deletions     *)
(***************************************************************************)
EXTENDS Integers, Sequences, FiniteSets, TLC

VARIABLES
    cookie_jar,        \* RClient.cookie_jar: the jar's records in get_all() iteration order
    deleted_cookies,   \* RClient.deleted_cookies: the tombstone set of names
    call,              \* the cookie operation that returned last: [op, names, ret, hidden_before]
    cookie_calls,      \* per thread: the cookie method it is in and how far that has run
    impersonate,       \* RClient.impersonate
    impersonate_os,    \* RClient.impersonate_os
    proxy,             \* RClient.proxy
    timeout,           \* RClient.timeout
    headers,           \* RClient.headers
    ordered_headers,   \* RClient.ordered_headers
    cookie_store,      \* RClient.cookie_store
    client,            \* RClient.client: the handle in the shared slot
    client_lock,       \* holder of the Mutex around the handle: 0 when free, else a request
    builds,            \* number of handles built so far
    calls,             \* number of configuration calls made so far
    setter,            \* the configuration call in progress or returned last
    req,               \* per caller: the position of its request() and the handle it obtained
    older,             \* callers whose request in flight obtained its handle before the last setter returned
    split_cookies,     \* RClient.split_cookies
    auth,              \* RClient.auth
    auth_bearer,       \* RClient.auth_bearer
    params,            \* RClient.params
    request,           \* the arguments of the request() whose headers are being built
    sent,              \* what that request() handed to its request builder
    verify,            \* RClient.verify
    ca_cert_file,      \* RClient.ca_cert_file
    PRIMP_CA_BUNDLE,   \* the process environment variable PRIMP_CA_BUNDLE
    CERT_STORE,        \* load_ca_certs::CERT_STORE: None until the LazyLock is first forced
    tls                \* certificate settings of the handle built last: [cert_verification, cert_store]

cookieVars == <<cookie_jar, deleted_cookies, call, cookie_calls>>
configVars == <<impersonate, impersonate_os, proxy, timeout, headers, ordered_headers, cookie_store>>
clientVars == <<client, client_lock, builds, calls, setter, req, older>>

requestVars == <<split_cookies, auth, auth_bearer, params, request, sent>>

certVars == <<verify, ca_cert_file, PRIMP_CA_BUNDLE, CERT_STORE, tls>>

vars == <<cookieVars, configVars, clientVars, requestVars, certVars>>

----------------------------------------------------------------------------
(* Option<T>: None is the empty sequence, Some(x) the one-element sequence. *)
None == <<>>
Some(x) == <<x>>
IsSome(o) == o # <<>>
Unwrap(o) == o[1]
UnwrapOr(o, d) == IF o = <<>> THEN d ELSE o[1]

SeqRange(s) == {s[i] : i \in 1..Len(s)}

----------------------------------------------------------------------------
(* Bounds of the cookie model *)
MaxUpdate == 2          \* longest map passed to update_cookies
MaxThreads == 2         \* threads that can be inside a cookie method at once

CookieNames == {"a", "b"}
CookieValues == {"1", "2"}
DefaultDomain == "0.0.0.0"
DefaultPath == "/"
DomainArgs == {None, Some("example.com")}
PathArgs == {None}

(* A record of the jar.  A deletion is stored as an expired record with an *)
(* empty value; the jar's get_all() enumerates expired records too.        *)
LiveCookie(n, v, d, p) == [name |-> n, value |-> v, domain |-> d, path |-> p, expired |-> FALSE]
ExpiredCookie(n) == [name |-> n, value |-> "", domain |-> DefaultDomain, path |-> DefaultPath, expired |-> TRUE]

SameKey(r, c) == r.name = c.name /\ r.domain = c.domain /\ r.path = c.path

InsertAt(s, i, x) == SubSeq(s, 1, i - 1) \o <<x>> \o SubSeq(s, i, Len(s))

(* Jar::add_cookie_str: the record replaces the one stored under the same  *)
(* (name, domain, path); a new key lands anywhere in the iteration order   *)
(* (the jar is hash-keyed).  The set of jars the call can produce.         *)
AddCookieStr(jar, c) ==
    IF \E i \in 1..Len(jar) : SameKey(jar[i], c)
    THEN {[i \in 1..Len(jar) |-> IF SameKey(jar[i], c) THEN c ELSE jar[i]]}
    ELSE {InsertAt(jar, i, c) : i \in 1..(Len(jar) + 1)}

RECURSIVE AddAll(_, _)
AddAll(jar, cs) ==
    IF cs = <<>> THEN {jar}
    ELSE UNION {AddAll(j, Tail(cs)) : j \in AddCookieStr(jar, Head(cs))}

(* IndexMap::insert on a sequence of <<key, value>> pairs: an existing key *)
(* keeps its position and takes the new value, a new key goes last.        *)
MapKeys(m) == {m[i][1] : i \in 1..Len(m)}
MapInsert(m, k, v) ==
    IF k \in MapKeys(m)
    THEN [i \in 1..Len(m) |-> IF m[i][1] = k THEN <<k, v>> ELSE m[i]]
    ELSE Append(m, <<k, v>>)
MapGet(m, k) ==
    IF k \in MapKeys(m) THEN Some(m[CHOOSE i \in 1..Len(m) : m[i][1] = k][2]) ELSE None

----------------------------------------------------------------------------
(* Cookie management surface *)

(* get_all_cookies: every jar record whose name is not tombstoned, folded  *)
(* into an IndexMap name -> value in the jar's iteration order.            *)
RECURSIVE CollectCookies(_, _, _)
CollectCookies(jar, deleted, acc) ==
    IF jar = <<>> THEN acc
    ELSE CollectCookies(Tail(jar), deleted,
            IF Head(jar).name \notin deleted
            THEN MapInsert(acc, Head(jar).name, Head(jar).value)
            ELSE acc)

get_all_cookies(jar, deleted) == CollectCookies(jar, deleted, <<>>)

(* get_cookie: None when tombstoned, else the value of the first jar       *)
(* record carrying the name.                                               *)
get_cookie(jar, deleted, name) ==
    IF name \in deleted THEN None
    ELSE IF \E i \in 1..Len(jar) : jar[i].name = name
         THEN Some(jar[CHOOSE i \in 1..Len(jar) :
                        /\ jar[i].name = name
                        /\ \A j \in 1..(i - 1) : jar[j].name # name].value)
         ELSE None

(* What the two read operations show for a name. *)
Hidden(n) ==
    /\ get_cookie(cookie_jar, deleted_cookies, n) = None
    /\ n \notin MapKeys(get_all_cookies(cookie_jar, deleted_cookies))

Visible(n) ==
    /\ get_cookie(cookie_jar, deleted_cookies, n) # None
    /\ n \in MapKeys(get_all_cookies(cookie_jar, deleted_cookies))

(* The record of a returned call: the operation, the names it was given,   *)
(* its return value, and the names both reads hid when it was called.      *)
Returned(op, names, ret) ==
    [op |-> op, names |-> names, ret |-> ret,
     hidden_before |-> {n \in CookieNames : Hidden(n)}]

(* The cookie operations touch the jar and the tombstone set only. *)
CookieFrame == UNCHANGED <<configVars, clientVars, requestVars, certVars, cookie_calls>>

SetCookie(name, value, domain, path) ==
    LET d == UnwrapOr(domain, DefaultDomain)
        p == UnwrapOr(path, DefaultPath)
    IN  /\ cookie_jar' \in AddCookieStr(cookie_jar, LiveCookie(name, value, d, p))
        /\ deleted_cookies' = deleted_cookies \ {name}
        /\ call' = Returned("set_cookie", {name}, None) @@ [value |-> value]
        /\ CookieFrame

UpdateCookies(cookies, domain, path) ==
    LET d == UnwrapOr(domain, DefaultDomain)
        p == UnwrapOr(path, DefaultPath)
        cs == [i \in 1..Len(cookies) |-> LiveCookie(cookies[i][1], cookies[i][2], d, p)]
    IN  /\ cookie_jar' \in AddAll(cookie_jar, cs)
        /\ deleted_cookies' = deleted_cookies \ MapKeys(cookies)
        /\ call' = Returned("update_cookies", MapKeys(cookies), None)
        /\ CookieFrame

DeleteCookieNoTombstone(name) ==
    /\ cookie_jar' \in AddCookieStr(cookie_jar, ExpiredCookie(name))
    /\ deleted_cookies' = deleted_cookies
    /\ call' = Returned("delete_cookie", {name}, None)
    /\ CookieFrame

DeleteCookie(name) ==
    /\ cookie_jar' \in AddCookieStr(cookie_jar, ExpiredCookie(name))
    /\ deleted_cookies' = deleted_cookies \cup {name}
    /\ call' = Returned("delete_cookie", {name}, None)
    /\ CookieFrame

ClearCookiesNoTombstone ==
    LET cookie_names == [i \in 1..Len(cookie_jar) |-> cookie_jar[i].name]
        cs == [i \in 1..Len(cookie_names) |-> ExpiredCookie(cookie_names[i])]
    IN  /\ cookie_jar' \in AddAll(cookie_jar, cs)
        /\ deleted_cookies' = deleted_cookies
        /\ call' = Returned("clear_cookies", SeqRange(cookie_names), None)
        /\ CookieFrame

ClearCookies ==
    LET cookie_names == [i \in 1..Len(cookie_jar) |-> cookie_jar[i].name]
        cs == [i \in 1..Len(cookie_names) |-> ExpiredCookie(cookie_names[i])]
    IN  /\ cookie_jar' \in AddAll(cookie_jar, cs)
        /\ deleted_cookies' = deleted_cookies \cup SeqRange(cookie_names)
        /\ call' = Returned("clear_cookies", SeqRange(cookie_names), None)
        /\ CookieFrame

GetCookie(name) ==
    /\ call' = Returned("get_cookie", {name}, get_cookie(cookie_jar, deleted_cookies, name))
    /\ UNCHANGED <<cookie_jar, deleted_cookies>>
    /\ CookieFrame

GetAllCookies ==
    /\ call' = Returned("get_all_cookies", {}, get_all_cookies(cookie_jar, deleted_cookies))
    /\ UNCHANGED <<cookie_jar, deleted_cookies>>
    /\ CookieFrame

(* The maps a caller passes to update_cookies (and as the constructor's    *)
(* cookies seed): IndexMaps, so keys are distinct.                         *)
CookiePairs == CookieNames \X CookieValues
CookieMaps ==
    UNION {{m \in [1..k -> CookiePairs] : \A i, j \in 1..k : i # j => m[i][1] # m[j][1]}
           : k \in 0..MaxUpdate}

CookieThreads == 1..MaxThreads

NoCall == [op |-> "none", name |-> "", value |-> "", names |-> <<>>, pc |-> "idle",
           overlapped |-> FALSE]

(* RClient::new: an empty jar and tombstone set, then the cookies seed is  *)
(* applied with update_cookies(seed, None, None).                          *)
NewCookies(seed) ==
    /\ cookie_jar \in AddAll(<<>>,
          [i \in 1..Len(seed) |-> LiveCookie(seed[i][1], seed[i][2], DefaultDomain, DefaultPath)])
    /\ deleted_cookies = {}
    /\ call = Returned("new", {}, None)
    /\ cookie_calls = [t \in CookieThreads |-> NoCall]

(* The cookie methods statement by statement, as threads run them side by  *)
(* side.  The jar synchronises each of its own calls; deleted_cookies is   *)
(* behind a Mutex that set_cookie and delete_cookie take for one statement *)
(* and clear_cookies holds over its loop.                                  *)
InCall(t, op, pc) == cookie_calls[t].op = op /\ cookie_calls[t].pc = pc

DeletedUnlocked == \A t \in CookieThreads : cookie_calls[t].pc # "locked"

Concurrent(t) == \E u \in CookieThreads \ {t} : cookie_calls[u].pc \notin {"idle", "returned"}

(* A call is entered: it and every call in progress now overlap. *)
Enter(t, op, name, value, names, pc) ==
    [u \in CookieThreads |->
        IF u = t THEN [op |-> op, name |-> name, value |-> value, names |-> names,
                       pc |-> pc, overlapped |-> Concurrent(t)]
        ELSE IF cookie_calls[u].pc \notin {"idle", "returned"}
             THEN [cookie_calls[u] EXCEPT !.overlapped = TRUE]
             ELSE cookie_calls[u]]

StepFrame == UNCHANGED <<call, configVars, clientVars, requestVars, certVars>>

(* set_cookie: cookie_jar.add_cookie_str(..) *)
set_cookie_add(t, name, value, domain, path) ==
    /\ cookie_calls[t].pc = "idle"
    /\ cookie_jar' \in AddCookieStr(cookie_jar,
            LiveCookie(name, value, UnwrapOr(domain, DefaultDomain), UnwrapOr(path, DefaultPath)))
    /\ cookie_calls' = Enter(t, "set_cookie", name, value, <<>>, "added")
    /\ UNCHANGED deleted_cookies
    /\ StepFrame

(* set_cookie: deleted_cookies.lock().unwrap().remove(&name); Ok(()) *)
set_cookie_remove(t) ==
    /\ InCall(t, "set_cookie", "added")
    /\ DeletedUnlocked
    /\ deleted_cookies' = deleted_cookies \ {cookie_calls[t].name}
    /\ cookie_calls' = [cookie_calls EXCEPT ![t].pc = "returned"]
    /\ UNCHANGED cookie_jar
    /\ StepFrame

(* delete_cookie: cookie_jar.add_cookie_str("name=; Max-Age=0", ..) *)
delete_cookie_add(t, name) ==
    /\ cookie_calls[t].pc = "idle"
    /\ cookie_jar' \in AddCookieStr(cookie_jar, ExpiredCookie(name))
    /\ cookie_calls' = Enter(t, "delete_cookie", name, "", <<>>, "added")
    /\ UNCHANGED deleted_cookies
    /\ StepFrame

(* delete_cookie: deleted_cookies.lock().unwrap().insert(name); Ok(()) *)
delete_cookie_insert(t) ==
    /\ InCall(t, "delete_cookie", "added")
    /\ DeletedUnlocked
    /\ deleted_cookies' = deleted_cookies \cup {cookie_calls[t].name}
    /\ cookie_calls' = [cookie_calls EXCEPT ![t].pc = "returned"]
    /\ UNCHANGED cookie_jar
    /\ StepFrame

(* clear_cookies: cookie_names = cookie_jar.get_all().map(name).collect() *)
clear_cookies_names(t) ==
    /\ cookie_calls[t].pc = "idle"
    /\ cookie_calls' = Enter(t, "clear_cookies", "", "",
                             [i \in 1..Len(cookie_jar) |-> cookie_jar[i].name], "listed")
    /\ UNCHANGED <<cookie_jar, deleted_cookies>>
    /\ StepFrame

(* clear_cookies: let mut deleted = deleted_cookies.lock().unwrap() *)
clear_cookies_lock(t) ==
    /\ InCall(t, "clear_cookies", "listed")
    /\ DeletedUnlocked
    /\ cookie_calls' = [cookie_calls EXCEPT ![t].pc = "locked"]
    /\ UNCHANGED <<cookie_jar, deleted_cookies>>
    /\ StepFrame

(* clear_cookies: one turn of the loop, add_cookie_str then insert *)
clear_cookies_next(t) ==
    /\ InCall(t, "clear_cookies", "locked")
    /\ cookie_calls[t].names # <<>>
    /\ cookie_jar' \in AddCookieStr(cookie_jar, ExpiredCookie(Head(cookie_calls[t].names)))
    /\ deleted_cookies' = deleted_cookies \cup {Head(cookie_calls[t].names)}
    /\ cookie_calls' = [cookie_calls EXCEPT ![t].names = Tail(@)]
    /\ StepFrame

(* clear_cookies: the loop is over, the guard is dropped, Ok(()) *)
clear_cookies_return(t) ==
    /\ InCall(t, "clear_cookies", "locked")
    /\ cookie_calls[t].names = <<>>
    /\ cookie_calls' = [cookie_calls EXCEPT ![t].pc = "returned"]
    /\ UNCHANGED <<cookie_jar, deleted_cookies>>
    /\ StepFrame

----------------------------------------------------------------------------
(* Header names and http::HeaderMap *)

(* str::to_lowercase on the names the model passes. *)
to_lowercase(k) ==
    CASE k \in {"Host", "host", "HOST", "hOsT"} -> "host"
      [] k \in {"Content-Length", "content-length"} -> "content-length"
      [] k \in {"Content-Type", "content-type"} -> "content-type"
      [] k \in {"Cookie", "cookie"} -> "cookie"
      [] k \in {"Priority", "priority"} -> "priority"
      [] k \in {"X-A", "x-a"} -> "x-a"
      [] k \in {"X-B", "x-b"} -> "x-b"
      [] k \in {"X-C", "x-c"} -> "x-c"
      [] OTHER -> k

(* The request builder's header list, as http::HeaderMap keeps it: names   *)
(* are lower-cased; insert replaces the values of a name where its first   *)
(* entry stands; append adds a value to the name's entries.                *)
NamesOf(h) == [i \in 1..Len(h) |-> h[i][1]]
IndicesOf(h, name) == {i \in 1..Len(h) : h[i][1] = name}
Max(S) == CHOOSE x \in S : \A y \in S : y <= x
Min(S) == CHOOSE x \in S : \A y \in S : x <= y

RECURSIVE Without(_, _)
Without(h, name) ==
    IF h = <<>> THEN <<>>
    ELSE IF Head(h)[1] = name THEN Without(Tail(h), name)
    ELSE <<Head(h)>> \o Without(Tail(h), name)

header(h, key, value) ==
    LET name == to_lowercase(key)
    IN  IF IndicesOf(h, name) = {} THEN Append(h, <<name, value>>)
        ELSE LET first == Min(IndicesOf(h, name))
             IN  SubSeq(h, 1, first - 1) \o <<<<name, value>>>>
                    \o Without(SubSeq(h, first + 1, Len(h)), name)

header_append(h, key, value) ==
    LET name == to_lowercase(key)
    IN  IF IndicesOf(h, name) = {} THEN Append(h, <<name, value>>)
        ELSE InsertAt(h, Max(IndicesOf(h, name)) + 1, <<name, value>>)

(* HeadersTraits::to_headermap followed by RequestBuilder::headers on a    *)
(* builder that has none yet.                                              *)
RECURSIVE InsertHeaders(_, _)
InsertHeaders(h, m) ==
    IF m = <<>> THEN h
    ELSE InsertHeaders(header(h, Head(m)[1], Head(m)[2]), Tail(m))

to_headermap(m) == InsertHeaders(<<>>, m)

----------------------------------------------------------------------------
(* Configuration, rebuild_client and the shared client handle *)

(* Bounds of the client model *)
MaxInFlight == 2        \* callers that can have a request() in flight
MaxCalls == 2           \* configuration calls over a run
MaxNew == 2             \* longest map passed to headers_update / ordered_headers_update
MaxBuilds == 3          \* handles built in one process when further clients are constructed

Callers == 1..MaxInFlight

ImpersonateArgs == {"chrome_123", "bogus"}
ImpersonateOSArgs == {"linux", "bogus"}
ProxyArgs == {"http://127.0.0.1:8080", "::bad::"}
TimeoutArgs == {None, Some(10)}
HeaderArgs == {None, Some(<<<<"X-A", "1">>>>), Some(<<<<"X-A", "2">>>>)}
OrderedHeaderArgs == {None, Some(<<<<"Host", "example.com">>>>)}

(* Emulation::from_str / EmulationOS::from_str (mod impersonate) and       *)
(* wreq::Proxy::all accept these strings and fail on any other.            *)
EmulationFromStrOk(s) == s \in {"chrome_123"}
EmulationOSFromStrOk(s) == s \in {"linux"}
DefaultEmulationOS == "default"
ProxyAllOk(s) == s \in {"http://127.0.0.1:8080"}
EnvProxy == None        \* std::env::var("PRIMP_PROXY")

Config ==
    [impersonate |-> impersonate, impersonate_os |-> impersonate_os, proxy |-> proxy,
     timeout |-> timeout, headers |-> headers, ordered_headers |-> ordered_headers,
     cookie_store |-> cookie_store]

(* The builder steps that new() and rebuild_client() share: what the       *)
(* handle is compiled from, or the error that aborts the build.            *)
BuildEmulation(cfg) ==
    IF IsSome(cfg.impersonate)
    THEN Some(<<Unwrap(cfg.impersonate), UnwrapOr(cfg.impersonate_os, DefaultEmulationOS)>>)
    ELSE None

BuildDefaultHeadersAlways(cfg) ==
    IF IsSome(cfg.headers) THEN Some(to_headermap(Unwrap(cfg.headers))) ELSE None

(* default_headers(hdrs.to_headermap()), unless ordered headers are set. *)
BuildDefaultHeaders(cfg) ==
    IF IsSome(cfg.ordered_headers) THEN None
    ELSE IF IsSome(cfg.headers) THEN Some(to_headermap(Unwrap(cfg.headers)))
    ELSE None

BuildProxy(cfg) == IF IsSome(cfg.proxy) THEN cfg.proxy ELSE EnvProxy

BuildFails(cfg) ==
    \/ IsSome(cfg.impersonate) /\ ~EmulationFromStrOk(Unwrap(cfg.impersonate))
    \/ /\ IsSome(cfg.impersonate) /\ IsSome(cfg.impersonate_os)
       /\ ~EmulationOSFromStrOk(Unwrap(cfg.impersonate_os))
    \/ IsSome(BuildProxy(cfg)) /\ ~ProxyAllOk(Unwrap(BuildProxy(cfg)))

(* The cookie provider of a handle: the RClient's own jar (a clone of the   *)
(* Arc, so the same jar) when the cookie store is enabled.                 *)
OwnJar == "self.cookie_jar"

BuildCookieProviderNewJar(cfg, id) == Some(<<"Jar::default()", id>>)

BuildCookieProvider(cfg, id) ==
    IF UnwrapOr(cfg.cookie_store, TRUE) THEN Some(OwnJar) ELSE None

BuildClient(cfg, id) ==
    [id |-> id,
     emulation |-> BuildEmulation(cfg),
     default_headers |-> BuildDefaultHeaders(cfg),
     cookie_provider |-> BuildCookieProvider(cfg, id),
     proxy |-> BuildProxy(cfg),
     timeout |-> cfg.timeout]

Idle == [pc |-> "idle", handle |-> None, sent |-> None]

(* The certificate files of the model and what std::fs::read makes of      *)
(* them; the environment of a process at its start.                        *)
CaCertFiles == {"/certs/a.pem", "/certs/b.pem", "/nope/ca.pem"}
FsReadOk(path) == path \in {"/certs/a.pem", "/certs/b.pem"}
EnvCaBundle == None     \* std::env::var("PRIMP_CA_BUNDLE") when the process starts
EnvCaCertFile == None   \* std::env::var("CA_CERT_FILE")
BuiltInRoots == "webpki_root_certs"

(* The initialiser of CERT_STORE: the certificates of the file the         *)
(* environment names when it can be read, else the built-in roots.  A      *)
(* store is named by where its certificates come from.                     *)
InitCertStore(env) ==
    LET ca_cert_path == IF IsSome(env) THEN env ELSE EnvCaCertFile
    IN  IF IsSome(ca_cert_path) /\ FsReadOk(Unwrap(ca_cert_path))
        THEN Unwrap(ca_cert_path)
        ELSE BuiltInRoots

(* load_ca_certs: the LazyLock runs its initialiser the first time it is   *)
(* forced and hands out the same store ever after.                         *)
load_ca_certs(store, env) == IF IsSome(store) THEN store ELSE Some(InitCertStore(env))

SetCaBundle(env, file) == IF IsSome(file) THEN file ELSE env

CertSettings(v, store) ==
    IF UnwrapOr(v, TRUE)
    THEN [cert_verification |-> TRUE, cert_store |-> store]
    ELSE [cert_verification |-> FALSE, cert_store |-> None]

(* The ca_cert_file and verify steps of new() and rebuild_client(). *)
CertStep(v, file) ==
    /\ PRIMP_CA_BUNDLE' = SetCaBundle(PRIMP_CA_BUNDLE, file)
    /\ CERT_STORE' = IF UnwrapOr(v, TRUE) THEN load_ca_certs(CERT_STORE, PRIMP_CA_BUNDLE')
                     ELSE CERT_STORE
    /\ tls' = CertSettings(v, CERT_STORE')

(* The same steps of the first new() of a process. *)
NewCerts(v, file) ==
    /\ verify = v
    /\ ca_cert_file = file
    /\ PRIMP_CA_BUNDLE = SetCaBundle(EnvCaBundle, file)
    /\ CERT_STORE = IF UnwrapOr(v, TRUE) THEN load_ca_certs(None, PRIMP_CA_BUNDLE) ELSE None
    /\ tls = CertSettings(v, CERT_STORE)

(* RClient::new with arguments the builder accepts, in a new process. *)
NewClientStore(store, imp, os, prx, tmo, hdrs, ordered, v, file) ==
    LET cfg == [impersonate |-> imp, impersonate_os |-> os, proxy |-> prx,
                timeout |-> tmo, headers |-> hdrs, ordered_headers |-> ordered,
                cookie_store |-> store]
    IN  /\ ~BuildFails(cfg)
        /\ impersonate = imp /\ impersonate_os = os /\ proxy = prx
        /\ timeout = tmo /\ headers = hdrs /\ ordered_headers = ordered
        /\ cookie_store = store
        /\ client = BuildClient(cfg, 1)
        /\ client_lock = 0
        /\ builds = 1
        /\ calls = 0
        /\ setter = [pc |-> "idle", op |-> "new", arg_some |-> TRUE, arg |-> None, status |-> "Ok",
                     pending |-> None, client_before |-> None, config_before |-> None]
        /\ req = [c \in Callers |-> Idle]
        /\ older = {}
        /\ NewCerts(v, file)

(* The same with cookie_store left at its default, true. *)
NewClientWith(imp, os, prx, tmo, hdrs, ordered, v, file) ==
    NewClientStore(Some(TRUE), imp, os, prx, tmo, hdrs, ordered, v, file)

(* The same with verify and ca_cert_file left at their defaults. *)
NewClient(imp, os, prx, tmo, hdrs, ordered) ==
    NewClientWith(imp, os, prx, tmo, hdrs, ordered, None, None)

ClientFrame == UNCHANGED <<cookieVars, requestVars>>

(* RClient::new of a further client in a process that has built clients    *)
(* before, every argument but verify and ca_cert_file at its default: the  *)
(* variables then describe the new object.  The environment and            *)
(* CERT_STORE are the process's and stay as the earlier builds left them.  *)
NewInProcess(v, file) ==
    /\ setter.pc = "idle"
    /\ builds < MaxBuilds
    /\ impersonate' = None /\ impersonate_os' = None /\ proxy' = None
    /\ timeout' = None /\ headers' = None /\ ordered_headers' = None
    /\ cookie_store' = Some(TRUE)
    /\ client' = BuildClient(Config', builds + 1)
    /\ client_lock' = 0
    /\ builds' = builds + 1
    /\ setter' = [pc |-> "idle", op |-> "new", arg_some |-> TRUE, arg |-> None, status |-> "Ok",
                  pending |-> None, client_before |-> None, config_before |-> None]
    /\ req' = [c \in Callers |-> Idle]
    /\ older' = {}
    /\ verify' = v
    /\ ca_cert_file' = file
    /\ CertStep(v, file)
    /\ cookie_jar' = <<>> /\ deleted_cookies' = {}
    /\ split_cookies' = None /\ auth' = None /\ auth_bearer' = None /\ params' = None
    /\ UNCHANGED <<call, cookie_calls, calls, request, sent>>

InFlight == {c \in Callers : req[c].pc \in {"sending", "done"}}

(* rebuild_client up to the build, run on the configuration as the setter  *)
(* left it: Err leaves the slot alone and the call returns; Ok holds the   *)
(* new handle until the slot's lock is taken.                              *)
RebuildClientDropsHandle(op, some, arg, before) ==
    IF BuildFails(Config')
    THEN /\ setter' = [pc |-> "idle", op |-> op, arg_some |-> some, arg |-> arg, status |-> "ConfigError",
                       pending |-> None, client_before |-> Some(client),
                       config_before |-> Some(before)]
         /\ older' = InFlight
         /\ client' = BuildClient([impersonate |-> None, impersonate_os |-> None,
                                    proxy |-> None, timeout |-> None, headers |-> None,
                                    ordered_headers |-> None,
                                    cookie_store |-> cookie_store], builds + 1)
         /\ builds' = builds + 1
         /\ UNCHANGED <<PRIMP_CA_BUNDLE, CERT_STORE, tls>>
    ELSE /\ builds' = builds + 1
         /\ setter' = [pc |-> "swap", op |-> op, arg_some |-> some, arg |-> arg, status |-> "Ok",
                       pending |-> Some(BuildClient(Config', builds + 1)),
                       client_before |-> Some(client), config_before |-> Some(before)]
         /\ UNCHANGED <<client, older>>
         /\ CertStep(verify, ca_cert_file)

RebuildClient(op, some, arg, before) ==
    IF BuildFails(Config')
    THEN /\ setter' = [pc |-> "idle", op |-> op, arg_some |-> some, arg |-> arg, status |-> "ConfigError",
                       pending |-> None, client_before |-> Some(client),
                       config_before |-> Some(before)]
         /\ older' = InFlight
         /\ UNCHANGED <<client, builds>>
         /\ UNCHANGED <<PRIMP_CA_BUNDLE, CERT_STORE, tls>>
    ELSE /\ builds' = builds + 1
         /\ setter' = [pc |-> "swap", op |-> op, arg_some |-> some, arg |-> arg, status |-> "Ok",
                       pending |-> Some(BuildClient(Config', builds + 1)),
                       client_before |-> Some(client), config_before |-> Some(before)]
         /\ UNCHANGED <<client, older>>
         /\ CertStep(verify, ca_cert_file)

(* A call that returns without a rebuild. *)
NoRebuild(op, some, arg, before) ==
    /\ setter' = [pc |-> "idle", op |-> op, arg_some |-> some, arg |-> arg, status |-> "Ok",
                  pending |-> None, client_before |-> Some(client),
                  config_before |-> Some(before)]
    /\ older' = InFlight
    /\ UNCHANGED <<client, builds>>
    /\ UNCHANGED <<PRIMP_CA_BUNDLE, CERT_STORE, tls>>

(* The tail of rebuild_client: lock the slot, replace the handle, return.  *)
RebuildSwap ==
    /\ setter.pc = "swap"
    /\ client_lock = 0
    /\ client' = Unwrap(setter.pending)
    /\ setter' = [setter EXCEPT !.pc = "idle", !.pending = None]
    /\ older' = InFlight
    /\ UNCHANGED <<configVars, certVars, client_lock, builds, calls, req>>
    /\ ClientFrame

(* A configuration call is made by the one holder of &mut self. *)
SetterCall == setter.pc = "idle" /\ calls < MaxCalls /\ calls' = calls + 1

SetterFrame == UNCHANGED <<client_lock, req, verify, ca_cert_file>> /\ ClientFrame

set_headers(new_headers) ==
    /\ SetterCall
    /\ headers' = new_headers
    /\ UNCHANGED <<impersonate, impersonate_os, proxy, timeout, ordered_headers, cookie_store>>
    /\ RebuildClient("set_headers", TRUE, new_headers, Config)
    /\ SetterFrame

RECURSIVE InsertAll(_, _)
InsertAll(existing, new) ==
    IF new = <<>> THEN existing
    ELSE InsertAll(MapInsert(existing, Head(new)[1], Head(new)[2]), Tail(new))

UpdateMapReplaces(existing, new) == Some(new)

UpdateMap(existing, new) ==
    IF IsSome(existing) THEN Some(InsertAll(Unwrap(existing), new)) ELSE Some(new)

headers_updateNoRebuild(new_headers) ==
    /\ SetterCall
    /\ UNCHANGED <<impersonate, impersonate_os, proxy, timeout, ordered_headers, cookie_store>>
    /\ IF IsSome(new_headers)
       THEN /\ headers' = UpdateMap(headers, Unwrap(new_headers))
            /\ NoRebuild("headers_update", TRUE, new_headers, Config)
       ELSE /\ UNCHANGED headers
            /\ NoRebuild("headers_update", FALSE, new_headers, Config)
    /\ SetterFrame

headers_update(new_headers) ==
    /\ SetterCall
    /\ UNCHANGED <<impersonate, impersonate_os, proxy, timeout, ordered_headers, cookie_store>>
    /\ IF IsSome(new_headers)
       THEN /\ headers' = UpdateMap(headers, Unwrap(new_headers))
            /\ RebuildClient("headers_update", TRUE, new_headers, Config)
       ELSE /\ UNCHANGED headers
            /\ NoRebuild("headers_update", FALSE, new_headers, Config)
    /\ SetterFrame

set_ordered_headers(new_headers) ==
    /\ SetterCall
    /\ ordered_headers' = new_headers
    /\ UNCHANGED <<impersonate, impersonate_os, proxy, timeout, headers, cookie_store>>
    /\ RebuildClient("set_ordered_headers", TRUE, new_headers, Config)
    /\ SetterFrame

ordered_headers_update(new_headers) ==
    /\ SetterCall
    /\ UNCHANGED <<impersonate, impersonate_os, proxy, timeout, headers, cookie_store>>
    /\ IF IsSome(new_headers)
       THEN /\ ordered_headers' = UpdateMap(ordered_headers, Unwrap(new_headers))
            /\ RebuildClient("ordered_headers_update", TRUE, new_headers, Config)
       ELSE /\ UNCHANGED ordered_headers
            /\ NoRebuild("ordered_headers_update", FALSE, new_headers, Config)
    /\ SetterFrame

set_proxy(p) ==
    /\ SetterCall
    /\ proxy' = Some(p)
    /\ UNCHANGED <<impersonate, impersonate_os, timeout, headers, ordered_headers, cookie_store>>
    /\ RebuildClient("set_proxy", TRUE, Some(p), Config)
    /\ SetterFrame

set_impersonate(i) ==
    /\ SetterCall
    /\ impersonate' = Some(i)
    /\ UNCHANGED <<impersonate_os, proxy, timeout, headers, ordered_headers, cookie_store>>
    /\ RebuildClient("set_impersonate", TRUE, Some(i), Config)
    /\ SetterFrame

set_impersonate_os(o) ==
    /\ SetterCall
    /\ impersonate_os' = Some(o)
    /\ UNCHANGED <<impersonate, proxy, timeout, headers, ordered_headers, cookie_store>>
    /\ RebuildClient("set_impersonate_os", TRUE, Some(o), Config)
    /\ SetterFrame

(* timeout is a plain #[pyo3(set)] field: assigned, no rebuild. *)
set_timeout(t) ==
    /\ SetterCall
    /\ timeout' = t
    /\ UNCHANGED <<impersonate, impersonate_os, proxy, headers, ordered_headers, cookie_store>>
    /\ NoRebuild("set_timeout", TRUE, t, Config)
    /\ SetterFrame

(* request(): the handle is read under the slot's lock, the lock guard is  *)
(* dropped at the end of that statement, and send() runs on the handle the *)
(* request builder took.                                                   *)
RequestFrame == UNCHANGED <<configVars, certVars, client, builds, calls, setter>> /\ ClientFrame

RequestLock(c) ==
    /\ req[c].pc = "idle"
    /\ client_lock = 0
    /\ client_lock' = c
    /\ req' = [req EXCEPT ![c] = [pc |-> "locked", handle |-> None, sent |-> None]]
    /\ UNCHANGED older
    /\ RequestFrame

RequestObtainKeepsLock(c) ==
    /\ req[c].pc = "locked"
    /\ req' = [req EXCEPT ![c] = [pc |-> "sending", handle |-> Some(client), sent |-> None]]
    /\ UNCHANGED <<client_lock, older>>
    /\ RequestFrame

RequestObtain(c) ==
    /\ req[c].pc = "locked"
    /\ req' = [req EXCEPT ![c] = [pc |-> "sending", handle |-> Some(client), sent |-> None]]
    /\ client_lock' = 0
    /\ UNCHANGED older
    /\ RequestFrame

(* The handle send() runs on: the one inside the request builder. *)
SendHandleShared(c) == Some(client)

SendHandle(c) == req[c].handle

RequestDone(c) ==
    /\ req[c].pc = "sending"
    /\ req' = [req EXCEPT ![c] = [@ EXCEPT !.pc = "done", !.sent = SendHandle(c)]]
    /\ UNCHANGED <<client_lock, older>>
    /\ RequestFrame

RequestReturn(c) ==
    /\ req[c].pc = "done"
    /\ req' = [req EXCEPT ![c] = Idle]
    /\ older' = older \ {c}
    /\ UNCHANGED client_lock
    /\ RequestFrame

----------------------------------------------------------------------------
(* request(): body classification, effective cookies and header ordering *)

(* Bounds of the request model *)
MaxHdrs == 3            \* longest ordered_headers map passed to request()
MaxCookies == 2         \* largest cookies map passed to request()
MaxFiles == 1           \* most entries of the files dict passed to request()

(* Header values are sequences of "; "-separated parts: <<"v">> is the     *)
(* value "v", <<"a=1", "b=2">> the value "a=1; b=2".  join("; ") of parts  *)
(* and split(';') + trim + non-empty of a value are then the parts.        *)
HeaderNames ==
    {"Host", "host", "hOsT", "Content-Length", "Content-Type", "cookie", "priority", "X-A", "X-B"}

HeaderValueOf(k) ==
    IF to_lowercase(k) = "cookie" THEN <<"x=1", "y=2">> ELSE <<"v:" \o k>>

(* IndexMaps of headers: distinct keys, each with its value. *)
HeaderMaps(names, n) ==
    UNION {{[i \in 1..k |-> <<f[i], HeaderValueOf(f[i])>>] :
              f \in {g \in [1..k -> names] : \A i, j \in 1..k : i # j => g[i] # g[j]}}
           : k \in 0..n}

(* format!("{}={}", k, v) *)
CookiePair(k, v) == k \o "=" \o v

AllCookies == <<<<"a", "1">>, <<"b", "2">>, <<"c", "3">>>>
CookieArgs == {None} \cup {Some(SubSeq(AllCookies, 1, k)) : k \in 0..MaxCookies}

(* The body arguments: content is bytes, data and json are serde_json      *)
(* Values, files the Python dict of field name -> value.  A Value carries  *)
(* what the serializers make of it; a field value is its type and its      *)
(* string (the content of a string, the JSON text of anything else).       *)
JsonObject == [kind |-> "object", text |-> "", parsed |-> None,
               fields |-> <<<<"k", [t |-> "string", s |-> "v"]>>,
                            <<"n", [t |-> "number", s |-> "1"]>>>>,
               json |-> "{\"k\":\"v\",\"n\":1}", form |-> "k=v&n=1"]
NestedObject == [kind |-> "object", text |-> "", parsed |-> None,
                 fields |-> <<<<"k", [t |-> "object", s |-> "{\"n\":1}"]>>>>,
                 json |-> "{\"k\":{\"n\":1}}", form |-> ""]
JsonString == [kind |-> "string", text |-> "{ \"k\": 1 }", parsed |-> Some("{\"k\":1}"),
               fields |-> <<>>, json |-> "", form |-> ""]
PlainString == [kind |-> "string", text |-> "hello", parsed |-> None,
                fields |-> <<>>, json |-> "", form |-> ""]

(* Python values of the files dict: a str (a path), bytes, or a tuple      *)
(* (filename, bytes or path[, mime]).                                      *)
PyStr(path) == [py |-> "str", filename |-> "", data |-> "str", path |-> path, mime |-> None]
PyBytes == [py |-> "bytes", filename |-> "", data |-> "bytes", path |-> "", mime |-> None]
PyTuple(filename, data, path, mime) ==
    [py |-> "tuple", filename |-> filename, data |-> data, path |-> path, mime |-> mime]

FileValues ==
    {PyStr("/tmp/up.txt"), PyStr("/nope/gone.txt"), PyBytes,
     PyTuple("name.txt", "bytes", "", None),
     PyTuple("name.txt", "bytes", "", Some("text/plain")),
     PyTuple("name.txt", "bytes", "", Some("not a mime")),
     PyTuple("name.txt", "str", "/tmp/up.txt", Some("text/plain"))}

FieldNames == <<"f", "g", "h">>
BytesFile == <<"f", PyBytes>>

(* FileData of one entry of the files dict. *)
FileData(entry) ==
    LET field_name == entry[1]
        value == entry[2]
        Path(path) == [kind |-> "Path", field |-> field_name, filename |-> "",
                       path |-> path, mime |-> ""]
        Bytes(filename) == [kind |-> "Bytes", field |-> field_name, filename |-> filename,
                            path |-> "", mime |-> ""]
        BytesWithMime(filename, mime_str) ==
            [kind |-> "BytesWithMime", field |-> field_name, filename |-> filename,
             path |-> "", mime |-> mime_str]
    IN  IF value.py = "str" THEN Path(value.path)
        ELSE IF value.py = "bytes" THEN Bytes(field_name)
        ELSE IF value.data = "bytes"
             THEN IF IsSome(value.mime) THEN BytesWithMime(value.filename, Unwrap(value.mime))
                  ELSE Bytes(value.filename)
        ELSE Path(value.path)

files_data(rq) == [i \in 1..Len(rq.files) |-> FileData(rq.files[i])]

NoBody == [content |-> None, data |-> None, json |-> None, files |-> <<>>]
BodyArgs ==
    {NoBody,
     [NoBody EXCEPT !.content = Some("raw")],
     [NoBody EXCEPT !.data = Some(JsonObject)],
     [NoBody EXCEPT !.data = Some(PlainString)],
     [NoBody EXCEPT !.json = Some(JsonObject)],
     [NoBody EXCEPT !.files = <<BytesFile>>]}

Methods == {"GET", "POST"}
is_post_put_patch(method) == method \in {"POST", "PUT", "PATCH"}
has_files(rq) == files_data(rq) # <<>>

is_nestedNever(form_data) == FALSE

(* obj.values().any(|v| v.is_object() || v.is_array()) *)
is_nested(form_data) ==
    /\ form_data.kind = "object"
    /\ \E i \in 1..Len(form_data.fields) : form_data.fields[i][2].t \in {"object", "array"}

(* (body_bytes, content_type_header) with data consulted before content. *)
BodyOfDataFirst(rq) ==
    IF is_post_put_patch(rq.method)
    THEN IF has_files(rq) THEN <<None, None>>
         ELSE IF IsSome(rq.data)
              THEN LET form_data == Unwrap(rq.data)
                   IN  IF form_data.kind = "string"
                       THEN IF IsSome(form_data.parsed)
                            THEN <<form_data.parsed, Some("application/json")>>
                            ELSE <<Some(form_data.text), None>>
                       ELSE IF is_nested(form_data)
                            THEN <<Some(form_data.json), Some("application/json")>>
                            ELSE <<Some(form_data.form), Some("application/x-www-form-urlencoded")>>
         ELSE IF IsSome(rq.content) THEN <<rq.content, None>>
         ELSE IF IsSome(rq.json) THEN <<Some(Unwrap(rq.json).json), Some("application/json")>>
         ELSE <<None, None>>
    ELSE <<None, None>>

(* (body_bytes, content_type_header) *)
BodyOf(rq) ==
    IF is_post_put_patch(rq.method)
    THEN IF has_files(rq) THEN <<None, None>>
         ELSE IF IsSome(rq.content) THEN <<rq.content, None>>
         ELSE IF IsSome(rq.data)
              THEN LET form_data == Unwrap(rq.data)
                   IN  IF form_data.kind = "string"
                       THEN IF IsSome(form_data.parsed)
                            THEN <<form_data.parsed, Some("application/json")>>
                            ELSE <<Some(form_data.text), None>>
                       ELSE IF is_nested(form_data)
                            THEN <<Some(form_data.json), Some("application/json")>>
                            ELSE <<Some(form_data.form), Some("application/x-www-form-urlencoded")>>
         ELSE IF IsSome(rq.json) THEN <<Some(Unwrap(rq.json).json), Some("application/json")>>
         ELSE <<None, None>>
    ELSE <<None, None>>

body_bytes(rq) == BodyOf(rq)[1]
content_type_header(rq) == BodyOf(rq)[2]

(* The cookies argument, else the jar's visible cookies when there are any. *)
effective_cookiesWholeJar(rq) ==
    IF IsSome(rq.cookies) THEN rq.cookies
    ELSE LET jar_cookies == get_all_cookies(cookie_jar, {})
         IN  IF jar_cookies # <<>> THEN Some(jar_cookies) ELSE None

effective_cookies(rq) ==
    IF IsSome(rq.cookies) THEN rq.cookies
    ELSE LET jar_cookies == get_all_cookies(cookie_jar, deleted_cookies)
         IN  IF jar_cookies # <<>> THEN Some(jar_cookies) ELSE None

effective_ordered_headersClientFirst(rq) ==
    IF IsSome(ordered_headers) THEN ordered_headers ELSE rq.ordered_headers

(* The ordered_headers argument, else the client-level map. *)
effective_ordered_headers(rq) ==
    IF IsSome(rq.ordered_headers) THEN rq.ordered_headers ELSE ordered_headers

(* Steps 1-3: Host, Content-Length, Content-Type. *)
host_value(ordered_hdrs) ==
    IF IsSome(MapGet(ordered_hdrs, "Host")) THEN MapGet(ordered_hdrs, "Host")
    ELSE IF IsSome(MapGet(ordered_hdrs, "host")) THEN MapGet(ordered_hdrs, "host")
    ELSE MapGet(ordered_hdrs, "HOST")

WithHost(ordered_hdrs) ==
    IF IsSome(host_value(ordered_hdrs))
    THEN MapInsert(<<>>, "Host", Unwrap(host_value(ordered_hdrs)))
    ELSE <<>>

WithContentLength(reordered, rq) ==
    IF IsSome(body_bytes(rq))
    THEN MapInsert(reordered, "Content-Length", <<ToString(Len(Unwrap(body_bytes(rq))))>>)
    ELSE IF has_files(rq) THEN MapInsert(reordered, "Content-Length", <<"0">>)
    ELSE reordered

WithContentTypeAlways(reordered, ordered_hdrs, rq) ==
    IF IsSome(content_type_header(rq))
    THEN MapInsert(reordered, "Content-Type", <<Unwrap(content_type_header(rq))>>)
    ELSE reordered

WithContentType(reordered, ordered_hdrs, rq) ==
    IF /\ IsSome(content_type_header(rq))
       /\ ~\E i \in 1..Len(ordered_hdrs) : to_lowercase(ordered_hdrs[i][1]) = "content-type"
    THEN MapInsert(reordered, "Content-Type", <<Unwrap(content_type_header(rq))>>)
    ELSE reordered

(* Step 4: the copy loop; priority and cookie are set aside. *)
RECURSIVE BulkCopyInPlace(_, _)
BulkCopyInPlace(hdrs, acc) ==
    IF hdrs = <<>> THEN acc
    ELSE LET key == Head(hdrs)[1]
             value == Head(hdrs)[2]
             key_lower == to_lowercase(key)
         IN  BulkCopyInPlace(Tail(hdrs),
                IF \/ key_lower = "host" \/ key_lower = "content-length"
                   \/ key \in MapKeys(acc.reordered_headers)
                THEN acc
                ELSE IF key_lower = "priority"
                     THEN [acc EXCEPT !.priority_header = Some(<<key, value>>)]
                ELSE IF key_lower = "cookie"
                     THEN [acc EXCEPT !.cookie_from_headers = Some(<<key, value>>),
                                      !.reordered_headers = MapInsert(@, key, value)]
                ELSE [acc EXCEPT !.reordered_headers = MapInsert(@, key, value)])

RECURSIVE BulkCopyPriorityInPlace(_, _)
BulkCopyPriorityInPlace(hdrs, acc) ==
    IF hdrs = <<>> THEN acc
    ELSE LET key == Head(hdrs)[1]
             value == Head(hdrs)[2]
             key_lower == to_lowercase(key)
         IN  BulkCopyPriorityInPlace(Tail(hdrs),
                IF \/ key_lower = "host" \/ key_lower = "content-length"
                   \/ key \in MapKeys(acc.reordered_headers)
                THEN acc
                ELSE IF key_lower = "cookie"
                     THEN [acc EXCEPT !.cookie_from_headers = Some(<<key, value>>)]
                ELSE [acc EXCEPT !.reordered_headers = MapInsert(@, key, value)])

RECURSIVE BulkCopy(_, _)
BulkCopy(hdrs, acc) ==
    IF hdrs = <<>> THEN acc
    ELSE LET key == Head(hdrs)[1]
             value == Head(hdrs)[2]
             key_lower == to_lowercase(key)
         IN  BulkCopy(Tail(hdrs),
                IF \/ key_lower = "host" \/ key_lower = "content-length"
                   \/ key \in MapKeys(acc.reordered_headers)
                THEN acc
                ELSE IF key_lower = "priority"
                     THEN [acc EXCEPT !.priority_header = Some(<<key, value>>)]
                ELSE IF key_lower = "cookie"
                     THEN [acc EXCEPT !.cookie_from_headers = Some(<<key, value>>)]
                ELSE [acc EXCEPT !.reordered_headers = MapInsert(@, key, value)])

Reordered(ordered_hdrs, rq) ==
    BulkCopy(ordered_hdrs,
        [reordered_headers |->
            WithContentType(WithContentLength(WithHost(ordered_hdrs), rq), ordered_hdrs, rq),
         priority_header |-> None,
         cookie_from_headers |-> None])

RECURSIVE AppendCookies(_, _)
AppendCookies(h, parts) ==
    IF parts = <<>> THEN h
    ELSE AppendCookies(header_append(h, "cookie", <<Head(parts)>>), Tail(parts))

CookieParts(cookies) == [i \in 1..Len(cookies) |-> CookiePair(cookies[i][1], cookies[i][2])]

should_add_cookies_separately == UnwrapOr(split_cookies, FALSE)

(* Steps 5-6 on the ordered path: [headers, orig_headermap]. *)
OrderedHeaders(ordered_hdrs, rq) ==
    LET r == Reordered(ordered_hdrs, rq)
        eff == effective_cookies(rq)
        base == NamesOf(r.reordered_headers)
        prio == IF IsSome(r.priority_header) THEN <<Unwrap(r.priority_header)[1]>> ELSE <<>>
        separate == IF IsSome(eff) THEN CookieParts(Unwrap(eff))
                    ELSE IF IsSome(r.cookie_from_headers) THEN Unwrap(r.cookie_from_headers)[2]
                    ELSE <<>>
        with_cookie == IF IsSome(eff)
                       THEN IF Unwrap(eff) # <<>>
                            THEN MapInsert(r.reordered_headers, "cookie", CookieParts(Unwrap(eff)))
                            ELSE r.reordered_headers
                       ELSE IF IsSome(r.cookie_from_headers)
                            THEN MapInsert(r.reordered_headers, Unwrap(r.cookie_from_headers)[1],
                                           Unwrap(r.cookie_from_headers)[2])
                            ELSE r.reordered_headers
        merged == IF IsSome(r.priority_header)
                  THEN MapInsert(with_cookie, Unwrap(r.priority_header)[1], Unwrap(r.priority_header)[2])
                  ELSE with_cookie
    IN  IF should_add_cookies_separately
        THEN [headers |->
                LET h == AppendCookies(to_headermap(r.reordered_headers), separate)
                IN  IF IsSome(r.priority_header)
                    THEN header_append(h, Unwrap(r.priority_header)[1], Unwrap(r.priority_header)[2])
                    ELSE h,
              orig_headermap |-> base \o [i \in 1..Len(separate) |-> "cookie"] \o prio]
        ELSE [headers |-> to_headermap(merged),
              orig_headermap |->
                base \o SubSeq(NamesOf(with_cookie), Len(base) + 1, Len(with_cookie)) \o prio]

(* The fallback on the headers argument. *)
UnorderedHeaders(hdrs, rq) ==
    LET eff == effective_cookies(rq)
        h == to_headermap(hdrs)
    IN  [headers |->
            IF IsSome(eff) /\ Unwrap(eff) # <<>>
            THEN IF UnwrapOr(split_cookies, FALSE)
                 THEN AppendCookies(h, CookieParts(Unwrap(eff)))
                 ELSE header(h, "Cookie", CookieParts(Unwrap(eff)))
            ELSE h,
         orig_headermap |-> <<>>]

(* The multipart form: the text fields of an object-valued data, then one *)
(* part per FileData.                                                      *)
Readable(path) == path = "/tmp/up.txt"

(* Path::file_name of the paths the model passes. *)
file_name(path) ==
    CASE path = "/tmp/up.txt" -> Some("up.txt")
      [] path = "/nope/gone.txt" -> Some("gone.txt")
      [] OTHER -> None

(* mime_str.parse::<mime::Mime>() succeeds. *)
MimeParses(mime_str) == mime_str \in {"text/plain", "application/octet-stream"}

TextPart(field) ==
    [part |-> "text", name |-> field[1], value |-> field[2].s, filename |-> None, mime |-> None]

FilePart(file_data) ==
    CASE file_data.kind = "Path" ->
            [part |-> "file", name |-> file_data.field, value |-> file_data.path,
             filename |-> Some(UnwrapOr(file_name(file_data.path), file_data.field)),
             mime |-> None]
      [] file_data.kind = "Bytes" ->
            [part |-> "file", name |-> file_data.field, value |-> "bytes",
             filename |-> Some(file_data.filename), mime |-> None]
      [] file_data.kind = "BytesWithMime" ->
            [part |-> "file", name |-> file_data.field, value |-> "bytes",
             filename |-> Some(file_data.filename),
             mime |-> IF MimeParses(file_data.mime) THEN Some(file_data.mime) ELSE None]

MultipartForm(rq) ==
    (IF IsSome(rq.data) /\ Unwrap(rq.data).kind = "object"
     THEN [i \in 1..Len(Unwrap(rq.data).fields) |-> TextPart(Unwrap(rq.data).fields[i])]
     ELSE <<>>)
    \o [i \in 1..Len(files_data(rq)) |-> FilePart(files_data(rq)[i])]

(* File::open fails on one of the Path entries. *)
OpenFails(rq) ==
    \E i \in 1..Len(files_data(rq)) :
        files_data(rq)[i].kind = "Path" /\ ~Readable(files_data(rq)[i].path)

NoneBody == [kind |-> "none", bytes |-> "", form |-> <<>>]

(* The body attached: [status, body]. *)
AttachBody(rq) ==
    IF is_post_put_patch(rq.method)
    THEN IF has_files(rq)
         THEN IF OpenFails(rq) THEN [status |-> "IoError", body |-> NoneBody]
              ELSE [status |-> "Ok",
                    body |-> [kind |-> "multipart", bytes |-> "", form |-> MultipartForm(rq)]]
         ELSE IF IsSome(body_bytes(rq))
              THEN [status |-> "Ok",
                    body |-> [kind |-> "bytes", bytes |-> Unwrap(body_bytes(rq)), form |-> <<>>]]
         ELSE [status |-> "Ok", body |-> NoneBody]
    ELSE [status |-> "Ok", body |-> NoneBody]

(* Effective values of the per-request overrides. *)
effective_params(rq) == IF IsSome(rq.params) THEN rq.params ELSE params
effective_auth(rq) == IF IsSome(rq.auth) THEN rq.auth ELSE auth
effective_auth_bearer(rq) == IF IsSome(rq.auth_bearer) THEN rq.auth_bearer ELSE auth_bearer
effective_timeout(rq) == IF IsSome(rq.timeout) THEN rq.timeout ELSE timeout

AuthenticationBoth(rq) ==
    (IF IsSome(effective_auth(rq))
     THEN <<[scheme |-> "basic", credential |-> Unwrap(effective_auth(rq))]>> ELSE <<>>)
    \o (IF IsSome(effective_auth_bearer(rq))
        THEN <<[scheme |-> "bearer", credential |-> Unwrap(effective_auth_bearer(rq))]>> ELSE <<>>)

(* basic_auth when a basic credential is in effect, else bearer_auth when  *)
(* a token is in effect.                                                   *)
Authentication(rq) ==
    IF IsSome(effective_auth(rq)) THEN <<[scheme |-> "basic", credential |-> Unwrap(effective_auth(rq))]>>
    ELSE IF IsSome(effective_auth_bearer(rq))
         THEN <<[scheme |-> "bearer", credential |-> Unwrap(effective_auth_bearer(rq))]>>
    ELSE <<>>

(* The request handed to send(), or the error request() returns instead. *)
Dispatch(h, rq) ==
    [headers |-> h.headers,
     orig_headermap |-> h.orig_headermap,
     query |-> effective_params(rq),
     body |-> AttachBody(rq).body,
     auth |-> Authentication(rq),
     timeout |-> effective_timeout(rq),
     status |-> AttachBody(rq).status]

HeadersFrame ==
    UNCHANGED <<cookieVars, configVars, clientVars, certVars,
                split_cookies, auth, auth_bearer, params, request>>

RequestOrderedStoresOverride ==
    /\ sent = None
    /\ IsSome(effective_ordered_headers(request))
    /\ sent' = Some(Dispatch(OrderedHeaders(Unwrap(effective_ordered_headers(request)), request),
                             request))
    /\ ordered_headers' = effective_ordered_headers(request)
    /\ UNCHANGED <<cookieVars, clientVars, certVars, split_cookies, auth, auth_bearer, params,
                   request, impersonate, impersonate_os, proxy, timeout, headers, cookie_store>>

RequestOrdered ==
    /\ sent = None
    /\ IsSome(effective_ordered_headers(request))
    /\ sent' = Some(Dispatch(OrderedHeaders(Unwrap(effective_ordered_headers(request)), request),
                             request))
    /\ HeadersFrame

RequestUnordered ==
    /\ sent = None
    /\ ~IsSome(effective_ordered_headers(request))
    /\ IsSome(request.headers)
    /\ sent' = Some(Dispatch(UnorderedHeaders(Unwrap(request.headers), request), request))
    /\ HeadersFrame

RequestNoHeaders ==
    /\ sent = None
    /\ ~IsSome(effective_ordered_headers(request))
    /\ ~IsSome(request.headers)
    /\ sent' = Some(Dispatch([headers |-> <<>>, orig_headermap |-> <<>>], request))
    /\ HeadersFrame

(* The arguments request() is called with.  An ordered_headers map of two  *)
(* or more entries is passed to a client with an empty jar and no          *)
(* client-level ordered headers, with no headers argument, and on a method *)
(* without a body with no body argument but files.                         *)
HeadersArgs ==
    {None, Some(<<<<"X-A", <<"v:X-A">>>>>>),
     Some(<<<<"Cookie", <<"x=1", "y=2">>>>, <<"X-A", <<"v:X-A">>>>>>)}

OrderedArgs == {None} \cup {Some(x) : x \in HeaderMaps(HeaderNames, MaxHdrs)}

IsLong(o) == IsSome(o) /\ Len(Unwrap(o)) >= 2

RequestArgs(m, o, h, c, b) ==
    [method |-> m, ordered_headers |-> o, headers |-> h, cookies |-> c,
     content |-> b.content, data |-> b.data, json |-> b.json, files |-> b.files,
     params |-> None, auth |-> None, auth_bearer |-> None, timeout |-> None]

JarSeeds(rq) == IF IsLong(rq.ordered_headers) THEN {<<>>} ELSE {<<>>, <<<<"j", "9">>>>}

ClientOrderedArgs(rq) ==
    IF IsLong(rq.ordered_headers) THEN {None} ELSE {None, Some(<<<<"X-B", <<"client">>>>>>)}

(* Every combination of the body arguments. *)
FilesArgs ==
    UNION {{[i \in 1..k |-> <<FieldNames[i], f[i]>>] : f \in [1..k -> FileValues]} : k \in 0..MaxFiles}

ContentArgs == {None, Some("raw")}
DataArgs == {None, Some(JsonObject), Some(NestedObject), Some(JsonString), Some(PlainString)}
JsonArgs == {None, Some(JsonObject)}

NoDefaults == auth = None /\ auth_bearer = None /\ params = None

NoRequest(split) == split_cookies = split /\ NoDefaults /\ request = None /\ sent = None

----------------------------------------------------------------------------
(* Specifications *)

InitCookies ==
    /\ \E seed \in {m \in CookieMaps : Len(m) <= 1} : NewCookies(seed)
    /\ NewClient(None, None, None, None, None, None)
    /\ NoRequest(None)

NextCookies ==
    \/ \E n \in CookieNames, v \in CookieValues, d \in DomainArgs, p \in PathArgs : SetCookie(n, v, d, p)
    \/ \E m \in CookieMaps, d \in DomainArgs, p \in PathArgs : UpdateCookies(m, d, p)
    \/ \E n \in CookieNames : DeleteCookie(n)
    \/ ClearCookies
    \/ \E n \in CookieNames : GetCookie(n)
    \/ GetAllCookies

SpecCookies == InitCookies /\ [][NextCookies]_vars

InitClient ==
    /\ NewCookies(<<>>)
    /\ \E imp \in {None, Some("chrome_123")}, hdrs \in {None, Some(<<<<"X-A", "1">>>>)} :
          NewClient(imp, None, None, None, hdrs, None)
    /\ NoRequest(None)

NextClient ==
    \/ \E h \in HeaderArgs : set_headers(h)
    \/ \E h \in HeaderArgs : headers_update(h)
    \/ \E h \in OrderedHeaderArgs : set_ordered_headers(h)
    \/ \E h \in OrderedHeaderArgs : ordered_headers_update(h)
    \/ \E p \in ProxyArgs : set_proxy(p)
    \/ \E i \in ImpersonateArgs : set_impersonate(i)
    \/ \E o \in ImpersonateOSArgs : set_impersonate_os(o)
    \/ \E t \in TimeoutArgs : set_timeout(t)
    \/ RebuildSwap
    \/ \E c \in Callers : RequestLock(c)
    \/ \E c \in Callers : RequestObtain(c)
    \/ \E c \in Callers : RequestDone(c)
    \/ \E c \in Callers : RequestReturn(c)

SpecClient == InitClient /\ [][NextClient]_vars

InitHeaders ==
    /\ split_cookies \in {None, Some(TRUE)}
    /\ NoDefaults
    /\ \E m \in Methods, o \in OrderedArgs, c \in CookieArgs :
          \E h \in IF IsLong(o) THEN {None} ELSE HeadersArgs,
             b \in IF IsLong(o) /\ ~is_post_put_patch(m)
                   THEN {NoBody, [NoBody EXCEPT !.files = <<BytesFile>>]}
                   ELSE BodyArgs :
             request = RequestArgs(m, o, h, c, b)
    /\ sent = None
    /\ \E seed \in JarSeeds(request) : NewCookies(seed)
    /\ \E o \in ClientOrderedArgs(request) : NewClient(None, None, None, None, None, o)

NextHeaders ==
    \/ RequestOrdered
    \/ RequestUnordered
    \/ RequestNoHeaders

SpecHeaders == InitHeaders /\ [][NextHeaders]_vars

InitBody ==
    /\ split_cookies = None
    /\ NoDefaults
    /\ sent = None
    /\ \E m \in Methods, content \in ContentArgs, data \in DataArgs, json \in JsonArgs,
          files \in FilesArgs, o \in {None, Some(<<<<"Host", <<"v:Host">>>>>>)},
          h \in {None, Some(<<<<"X-A", <<"v:X-A">>>>>>)} :
          request = RequestArgs(m, o, h, None,
                        [content |-> content, data |-> data, json |-> json, files |-> files])
    /\ NewCookies(<<>>)
    /\ NewClient(None, None, None, None, None, None)

SpecBody == InitBody /\ [][NextHeaders]_vars

(* Client defaults and per-request overrides, on a GET without a body. *)
InitOverrides ==
    /\ split_cookies = None
    /\ auth \in {None, Some(<<"user", "pw">>)}
    /\ auth_bearer \in {None, Some("token")}
    /\ params \in {None, Some(<<<<"q", "client">>>>)}
    /\ sent = None
    /\ \E o \in {None, Some(<<>>), Some(<<<<"Host", <<"v:Host">>>>>>), Some(<<<<"X-B", <<"v:X-B">>>>>>)},
          h \in {None, Some(<<<<"X-A", <<"v:X-A">>>>>>)},
          c \in {None, Some(<<<<"a", "1">>>>)},
          p \in {None, Some(<<<<"q", "request">>>>)},
          a \in {None, Some(<<"other", "pw2">>)},
          b \in {None, Some("token2")},
          t \in {None, Some(5)} :
          request = [RequestArgs("GET", o, h, c, NoBody) EXCEPT
                        !.params = p, !.auth = a, !.auth_bearer = b, !.timeout = t]
    /\ \E seed \in {<<>>, <<<<"j", "9">>>>} : NewCookies(seed)
    /\ \E o \in {None, Some(<<<<"X-B", <<"client">>>>>>)}, t \in {None, Some(30)} :
          NewClient(None, None, None, t, None, o)

SpecOverrides == InitOverrides /\ [][NextHeaders]_vars

(* headers_update and ordered_headers_update on clients with and without   *)
(* a map, with maps whose keys are new, existing, or existing in another   *)
(* letter case.                                                            *)
UpdateKeys == {"X-A", "x-a", "X-B", "X-C"}

UpdateMaps ==
    UNION {{[i \in 1..k |-> <<f[i], "2">>] :
              f \in {g \in [1..k -> UpdateKeys] : \A i, j \in 1..k : i # j => g[i] # g[j]}}
           : k \in 0..MaxNew}

UpdateArgs == {None} \cup {Some(m) : m \in UpdateMaps}

InitUpdate ==
    /\ NewCookies(<<>>)
    /\ \E hdrs \in {None, Some(<<<<"X-A", "1">>, <<"X-B", "1">>>>)},
          ordered \in {None, Some(<<<<"X-B", "1">>, <<"X-A", "1">>>>)} :
          NewClient(None, None, None, None, hdrs, ordered)
    /\ NoRequest(None)

NextUpdate ==
    \/ \E h \in UpdateArgs : headers_update(h)
    \/ \E h \in UpdateArgs : ordered_headers_update(h)
    \/ RebuildSwap

SpecUpdate == InitUpdate /\ [][NextUpdate]_vars

(* Threads that each call one cookie method on a client whose jar holds up *)
(* to two cookies with value 1; set_cookie gives value 2, under the        *)
(* default domain and path.                                                *)
InitRace ==
    /\ \E seed \in {<<>>, <<<<"a", "1">>>>, <<<<"a", "1">>, <<"b", "1">>>>} : NewCookies(seed)
    /\ NewClient(None, None, None, None, None, None)
    /\ NoRequest(None)

NextRace ==
    \/ \E t \in CookieThreads, n \in CookieNames : set_cookie_add(t, n, "2", None, None)
    \/ \E t \in CookieThreads : set_cookie_remove(t)
    \/ \E t \in CookieThreads, n \in CookieNames : delete_cookie_add(t, n)
    \/ \E t \in CookieThreads : delete_cookie_insert(t)
    \/ \E t \in CookieThreads : clear_cookies_names(t)
    \/ \E t \in CookieThreads : clear_cookies_lock(t)
    \/ \E t \in CookieThreads : clear_cookies_next(t)
    \/ \E t \in CookieThreads : clear_cookies_return(t)

SpecRace == InitRace /\ [][NextRace]_vars

(* A request made after cookie operations on the client's jar. *)
InitJar ==
    /\ NewCookies(<<>>)
    /\ NewClient(None, None, None, None, None, None)
    /\ split_cookies \in {None, Some(TRUE)}
    /\ NoDefaults
    /\ \E o \in {None, Some(<<<<"Host", <<"v:Host">>>>, <<"X-A", <<"v:X-A">>>>>>)},
          h \in {None, Some(<<<<"X-A", <<"v:X-A">>>>>>)},
          c \in {None, Some(<<<<"a", "1">>>>)} :
          request = RequestArgs("GET", o, h, c, NoBody)
    /\ sent = None

NextJar ==
    \/ sent = None /\ \E n \in CookieNames, d \in DomainArgs : SetCookie(n, "1", d, None)
    \/ sent = None /\ \E n \in CookieNames : DeleteCookie(n)
    \/ sent = None /\ ClearCookies
    \/ RequestOrdered
    \/ RequestUnordered
    \/ RequestNoHeaders

SpecJar == InitJar /\ [][NextJar]_vars

(* Clients constructed one after another in one process, with and without  *)
(* verify, ca_cert_file and headers, and rebuilt by the header setters.    *)
VerifyArgs == {None, Some(FALSE)}
CaCertFileArgs == {None} \cup {Some(f) : f \in CaCertFiles}

InitCerts ==
    /\ NewCookies(<<>>)
    /\ \E v \in VerifyArgs, file \in CaCertFileArgs, hdrs \in {None, Some(<<<<"X-A", "1">>>>)} :
          NewClientWith(None, None, None, None, hdrs, None, v, file)
    /\ NoRequest(None)

NextCerts ==
    \/ \E v \in VerifyArgs, file \in CaCertFileArgs : NewInProcess(v, file)
    \/ \E h \in {None, Some(<<<<"X-A", "1">>>>)} : set_headers(h)
    \/ \E h \in OrderedHeaderArgs : set_ordered_headers(h)
    \/ RebuildSwap

SpecCerts == InitCerts /\ [][NextCerts]_vars

(* Requests whose ordered headers can hold two keys that differ only in    *)
(* letter case: the IndexMap keeps both.                                   *)
WireNames == {"Host", "X-A", "x-a", "cookie", "priority"}

InitWire ==
    /\ split_cookies \in {None, Some(TRUE)}
    /\ NoDefaults
    /\ \E o \in {None} \cup {Some(x) : x \in HeaderMaps(WireNames, MaxHdrs)}, c \in CookieArgs :
          \E h \in IF IsSome(o) THEN {None} ELSE {None, Some(<<<<"X-A", <<"v:X-A">>>>>>)} :
             request = RequestArgs("GET", o, h, c, NoBody)
    /\ sent = None
    /\ NewCookies(<<>>)
    /\ NewClient(None, None, None, None, None, None)

SpecWire == InitWire /\ [][NextHeaders]_vars

(* Cookie operations between configuration calls, on clients built with    *)
(* and without the cookie store.  A setter holds &mut self, so no cookie   *)
(* method runs while a rebuild is under way.                               *)
CookieStoreArgs == {None, Some(TRUE), Some(FALSE)}

InitStore ==
    /\ \E seed \in {m \in CookieMaps : Len(m) <= 1} : NewCookies(seed)
    /\ \E store \in CookieStoreArgs :
          NewClientStore(store, None, None, None, None, None, None, None, None)
    /\ NoRequest(None)

NextStore ==
    \/ \E n \in CookieNames, v \in CookieValues : setter.pc = "idle" /\ SetCookie(n, v, None, None)
    \/ \E n \in CookieNames : setter.pc = "idle" /\ DeleteCookie(n)
    \/ setter.pc = "idle" /\ ClearCookies
    \/ \E h \in HeaderArgs : set_headers(h)
    \/ \E i \in ImpersonateArgs : set_impersonate(i)
    \/ RebuildSwap

SpecStore == InitStore /\ [][NextStore]_vars

(* Requests with and without per-request overrides, with a body that can   *)
(* be attached and one that fails, on clients with and without defaults,   *)
(* after cookie deletions and configuration calls; the request is then     *)
(* sent, alongside the request of another caller.                          *)
UnreadableFile == <<"f", PyStr("/nope/gone.txt")>>

InitFrame ==
    /\ split_cookies = None
    /\ auth \in {None, Some(<<"user", "pw">>)}
    /\ auth_bearer = None
    /\ params = None
    /\ sent = None
    /\ \E o \in {None, Some(<<<<"X-B", <<"v:X-B">>>>>>)},
          h \in {None, Some(<<<<"X-A", <<"v:X-A">>>>>>)},
          c \in {None, Some(<<<<"a", "1">>>>)},
          a \in {None, Some(<<"other", "pw2">>)},
          t \in {None, Some(5)},
          b \in {NoBody, [NoBody EXCEPT !.files = <<UnreadableFile>>]} :
          request = [RequestArgs("POST", o, h, c, b) EXCEPT !.auth = a, !.timeout = t]
    /\ NewCookies(<<<<"a", "1">>>>)
    /\ NewClient(None, None, None, Some(30), None, None)

NextFrame ==
    \/ sent = None /\ DeleteCookie("a")
    \/ sent = None /\ \E h \in OrderedHeaderArgs : set_ordered_headers(h)
    \/ sent = None /\ RebuildSwap
    \/ RequestOrdered
    \/ RequestUnordered
    \/ RequestNoHeaders
    \/ sent # None /\ \E c \in Callers : RequestLock(c)
    \/ sent # None /\ \E c \in Callers : RequestObtain(c)
    \/ sent # None /\ \E c \in Callers : RequestDone(c)
    \/ sent # None /\ \E c \in Callers : RequestReturn(c)

SpecFrame == InitFrame /\ [][NextFrame]_vars


----------------------------------------------------------------------------
(* C1: after delete_cookie(n) returns, get_cookie(n) is None and           *)
(* get_all_cookies() has no key n, and this stays so through every         *)
(* operation that is not a set_cookie / update_cookies naming n; once such *)
(* a call returns, n is returned again by get_cookie and get_all_cookies.  *)
SetsName(c, n) == c.op \in {"set_cookie", "update_cookies"} /\ n \in c.names

C1_DeleteHidesUntilSet ==
    \A n \in CookieNames :
        /\ (call.op = "delete_cookie" /\ n \in call.names) => Hidden(n)
        /\ (n \in call.hidden_before /\ ~SetsName(call, n)) => Hidden(n)
        /\ SetsName(call, n) => Visible(n)

(* a was deleted (the jar still holds its expired record) and then set     *)
(* again under another domain: it is visible again.                        *)
C1_Witness ==
    /\ call.op = "set_cookie" /\ call.names = {"a"}
    /\ "a" \in call.hidden_before
    /\ \E i \in 1..Len(cookie_jar) : cookie_jar[i].name = "a" /\ cookie_jar[i].expired
    /\ Visible("a")

----------------------------------------------------------------------------
(* Claims on the configuration setters and the shared handle *)

Rebuilders ==
    {"set_headers", "headers_update", "set_ordered_headers", "ordered_headers_update",
     "set_proxy", "set_impersonate", "set_impersonate_os"}

SetterReturned(status) ==
    setter.pc = "idle" /\ setter.op \in Rebuilders /\ setter.arg_some /\ setter.status = status

(* The callers whose request obtained its handle after the last            *)
(* configuration call returned.                                            *)
Later == InFlight \ older

(* C2: when a setter's rebuild fails, the shared handle is still the one   *)
(* that was active before the call, and a request made afterwards is       *)
(* dispatched with that handle.                                            *)
C2_FailedRebuildKeepsHandle ==
    SetterReturned("ConfigError") =>
        /\ Some(client) = setter.client_before
        /\ \A c \in Later : req[c].handle = setter.client_before

C2_Witness ==
    /\ SetterReturned("ConfigError")
    /\ \E c \in Later : req[c].pc = "done" /\ req[c].sent = setter.client_before

(* C3: when a setter's rebuild fails, the stored configuration is the one  *)
(* from before the call (the rejected value is not retained).              *)
C3_FailedRebuildKeepsConfig ==
    SetterReturned("ConfigError") => Some(Config) = setter.config_before

(* C3, second half: a setter given a valid value rebuilds successfully.    *)
C3_ValidValueRebuilds ==
    (/\ setter.pc = "idle" /\ setter.op = "set_proxy"
     /\ IsSome(proxy) /\ ProxyAllOk(Unwrap(proxy))) => setter.status = "Ok"

(* C4: when a rebuilding setter returns successfully, the shared handle is *)
(* a new one built from the configuration as the call left it, and every   *)
(* request made afterwards is dispatched on it.                            *)
C4_SuccessfulSetterRebuilds ==
    SetterReturned("Ok") =>
        /\ client = BuildClient(Config, builds)
        /\ Some(client) # setter.client_before
        /\ \A c \in Later : req[c].handle = Some(client)

C4_Witness ==
    /\ SetterReturned("Ok") /\ setter.op = "headers_update"
    /\ Some(Config) # setter.config_before
    /\ \E c \in Later : req[c].pc = "done" /\ req[c].sent = Some(client)

(* C5: a request that obtained its handle before a swap is sent on that    *)
(* handle, whatever rebuilds complete meanwhile; a request that obtains    *)
(* the handle after the swap holds the new handle.                         *)
C5_InFlightKeepsHandle ==
    \A c \in Callers :
        /\ req[c].pc = "done" => req[c].sent = req[c].handle
        /\ c \in Later => req[c].handle = Some(client)

C5_Witness ==
    /\ req[1].pc = "done" /\ 1 \in older
    /\ req[1].handle # Some(client) /\ req[1].sent = req[1].handle
    /\ req[2].pc = "sending" /\ 2 \in Later /\ req[2].handle = Some(client)

(* C6: the slot's lock is held only by a request that is obtaining the     *)
(* handle, never by one whose send is in progress; while requests are in   *)
(* flight a waiting rebuild and a new request can each take the lock.      *)
NoneObtaining == \A c \in Callers : req[c].pc # "locked"

C6_LockNotHeldDuringSend ==
    /\ client_lock # 0 => req[client_lock].pc = "locked"
    /\ \A c \in InFlight : client_lock # c
    /\ (InFlight # {} /\ NoneObtaining) =>
          /\ setter.pc = "swap" => ENABLED RebuildSwap
          /\ \A d \in Callers : req[d].pc = "idle" => ENABLED RequestLock(d)

C6_Witness ==
    /\ req[1].pc = "sending" /\ req[2].pc = "locked" /\ client_lock = 2
    /\ 1 \in older /\ req[1].handle # Some(client)

----------------------------------------------------------------------------
(* Claims about the header order of a request *)

Built == sent # None
Out == Unwrap(sent).headers
OnOrderedPath == Built /\ IsSome(effective_ordered_headers(request))
Input == Unwrap(effective_ordered_headers(request))
KeysLike(name) == {i \in 1..Len(Input) : to_lowercase(Input[i][1]) = name}
Positions(name) == IndicesOf(Out, name)
NonEmptyCookies == IsSome(effective_cookies(request)) /\ Unwrap(effective_cookies(request)) # <<>>
Pairs == CookieParts(Unwrap(effective_cookies(request)))

ExpectedStart ==
    (IF KeysLike("host") # {} THEN <<"host">> ELSE <<>>)
    \o (IF IsSome(body_bytes(request)) \/ has_files(request) THEN <<"content-length">> ELSE <<>>)
    \o (IF IsSome(content_type_header(request)) /\ KeysLike("content-type") = {}
        THEN <<"content-type">> ELSE <<>>)

(* C7: on the ordered path the output header sequence begins with Host     *)
(* when the input has a host key, then Content-Length when the body length *)
(* is known or reserved for multipart, then Content-Type when one was      *)
(* inferred and the caller supplied none, ahead of every other header.     *)
C7_HostLengthTypeFirst ==
    OnOrderedPath =>
        /\ Len(Out) >= Len(ExpectedStart)
        /\ SubSeq(NamesOf(Out), 1, Len(ExpectedStart)) = ExpectedStart

(* C8: whenever the ordered input has a key equal to "host" ignoring       *)
(* letter case, the first output header is Host with that key's value.     *)
C8_HostMatchIgnoresCase ==
    (OnOrderedPath /\ KeysLike("host") # {}) =>
        /\ Out # <<>>
        /\ Out[1][1] = "host"
        /\ \E i \in KeysLike("host") : Out[1][2] = Input[i][2]

(* C9: with a non-empty effective cookie set, on the ordered and on the    *)
(* unordered path, merged style gives exactly one cookie header whose      *)
(* value is the "k=v" pairs joined by "; " in iteration order, and split   *)
(* style gives exactly one cookie header entry per pair in that order.     *)
C9_CookieHeadersPerStyle ==
    (Built /\ NonEmptyCookies) =>
        LET entries == SelectSeq(Out, LAMBDA e : e[1] = "cookie")
        IN  IF should_add_cookies_separately
            THEN entries = [i \in 1..Len(Pairs) |-> <<"cookie", <<Pairs[i]>>>>]
            ELSE entries = <<<<"cookie", Pairs>>>>

MergedWithInputCookie ==
    /\ OnOrderedPath
    /\ ~should_add_cookies_separately
    /\ KeysLike("cookie") # {}
    /\ NonEmptyCookies

(* The output positions of the input headers that followed the cookie key. *)
FollowersOut ==
    UNION {Positions(to_lowercase(Input[j][1])) :
             j \in {k \in 1..Len(Input) : \E c \in KeysLike("cookie") : k > c}}

(* C10 (as stated): in merged style, when the ordered input has a cookie   *)
(* header, the merged cookie header stands where that header stood: every  *)
(* input header that followed it follows the cookie header in the output.  *)
C10_MergedCookieKeepsPosition ==
    MergedWithInputCookie =>
        /\ Cardinality(Positions("cookie")) = 1
        /\ \A c \in Positions("cookie") : \A f \in FollowersOut : c < f

(* C10 (amended): in merged style, when the ordered input has a cookie     *)
(* header, the single merged cookie header comes after every other output  *)
(* header except the priority header, wherever the input had it.           *)
C10_MergedCookieAfterCopied ==
    MergedWithInputCookie =>
        /\ Cardinality(Positions("cookie")) = 1
        /\ Out[Max(Positions("cookie"))] = <<"cookie", Pairs>>
        /\ \A i \in 1..Len(Out) : i > Max(Positions("cookie")) => Out[i][1] = "priority"

C10_Witness ==
    /\ MergedWithInputCookie
    /\ \E f \in FollowersOut : Out[f][1] # "priority" /\ f < Max(Positions("cookie"))

CookieEntries ==
    IF should_add_cookies_separately
    THEN [i \in 1..Len(Pairs) |-> <<"cookie", <<Pairs[i]>>>>]
    ELSE <<<<"cookie", Pairs>>>>

(* C11: on the ordered path, in merged and in split style, the output ends *)
(* with the priority header when the input has one; and when the input has *)
(* no cookie header, the output is the copied headers, then the cookie     *)
(* header(s), then the priority header.                                    *)
C11_CookiesThenPriorityLast ==
    OnOrderedPath =>
        LET copied == SelectSeq(Out, LAMBDA e : e[1] \notin {"cookie", "priority"})
            prio == IF KeysLike("priority") = {} THEN <<>>
                    ELSE <<<<"priority", Input[Max(KeysLike("priority"))][2]>>>>
        IN  /\ KeysLike("priority") # {} =>
                /\ Out # <<>>
                /\ Out[Len(Out)] = prio[1]
                /\ Cardinality(Positions("priority")) = 1
            /\ (KeysLike("cookie") = {} /\ NonEmptyCookies) =>
                Out = copied \o CookieEntries \o prio

C11_Witness ==
    /\ OnOrderedPath
    /\ KeysLike("cookie") = {}
    /\ NonEmptyCookies
    /\ \E p \in KeysLike("priority") : p < Len(Input) /\ to_lowercase(Input[Len(Input)][1]) = "x-a"
    /\ Len(Out) >= 3
    /\ Out[Len(Out)][1] = "priority"
    /\ Out[Len(Out) - 1][1] = "cookie"
    /\ Out[Len(Out) - 2][1] = "x-a"

Skipped == {"host", "content-length", "priority", "cookie"}
Others == SelectSeq(Input, LAMBDA e : to_lowercase(e[1]) \notin Skipped)

C13_UnorderedCarriesCookies ==
    (Built /\ ~OnOrderedPath /\ NonEmptyCookies) =>
        IF should_add_cookies_separately
        THEN SelectSeq(Out, LAMBDA e : \E i \in 1..Len(Pairs) : e = <<"cookie", <<Pairs[i]>>>>)
                = CookieEntries
        ELSE SelectSeq(Out, LAMBDA e : e[1] = "cookie") = CookieEntries

----------------------------------------------------------------------------
(* Claims about the body of a request *)

Dispatched == Built /\ Unwrap(sent).status = "Ok"
Body == Unwrap(sent).body
BodyMethod == is_post_put_patch(request.method)
Bytes(b) == [kind |-> "bytes", bytes |-> b, form |-> <<>>]

(* What the encoder makes of a data value. *)
EncodedData(form_data) ==
    IF form_data.kind = "string"
    THEN IF IsSome(form_data.parsed) THEN Unwrap(form_data.parsed) ELSE form_data.text
    ELSE IF \E i \in 1..Len(form_data.fields) : form_data.fields[i][2].t \in {"object", "array"}
         THEN form_data.json
         ELSE form_data.form

BelowFiles ==
    IF IsSome(request.data) THEN Body = Bytes(EncodedData(Unwrap(request.data)))
    ELSE IF IsSome(request.json) THEN Body = Bytes(Unwrap(request.json).json)
    ELSE Body = NoneBody

(* C14 (as stated): on POST/PUT/PATCH the body follows Raw > Files > Form  *)
(* > Json: raw content wins over files, files over form data, form data    *)
(* over json.                                                              *)
C14_RawFilesFormJson ==
    (Dispatched /\ BodyMethod) =>
        IF IsSome(request.content) THEN Body = Bytes(Unwrap(request.content))
        ELSE IF request.files # <<>> THEN Body.kind = "multipart"
        ELSE BelowFiles

(* C14 (amended): on POST/PUT/PATCH the body follows Files > Raw > Form >  *)
(* Json: files win over raw content, raw content over form data, form data *)
(* over json.                                                              *)
C14_FilesRawFormJson ==
    (Dispatched /\ BodyMethod) =>
        IF request.files # <<>> THEN Body.kind = "multipart"
        ELSE IF IsSome(request.content) THEN Body = Bytes(Unwrap(request.content))
        ELSE BelowFiles

C14_Witness ==
    /\ Dispatched /\ BodyMethod
    /\ IsSome(request.content) /\ IsSome(request.data) /\ IsSome(request.json)
    /\ request.files # <<>>
    /\ Body.kind = "multipart"

SentType ==
    IF OnOrderedPath THEN SelectSeq(Out, LAMBDA e : e[1] = "content-type") ELSE <<>>

TypeIs(ct) ==
    /\ content_type_header(request) = ct
    /\ OnOrderedPath =>
         SentType = IF IsSome(ct) THEN <<<<"content-type", <<Unwrap(ct)>>>>>> ELSE <<>>

(* C15: for a data input on POST/PUT/PATCH with no files and no content: a *)
(* string that parses as JSON is re-serialized with type application/json; *)
(* a string that does not parse is sent verbatim with no inferred type; an *)
(* object without object or array field values is form-urlencoded; an      *)
(* object with one is serialized as application/json.                      *)
C15_DataEncoding ==
    (Dispatched /\ BodyMethod /\ request.files = <<>> /\ ~IsSome(request.content)
       /\ IsSome(request.data)) =>
        LET d == Unwrap(request.data)
            nested == \E i \in 1..Len(d.fields) : d.fields[i][2].t \in {"object", "array"}
        IN  /\ (d.kind = "string" /\ IsSome(d.parsed)) =>
                  Body = Bytes(Unwrap(d.parsed)) /\ TypeIs(Some("application/json"))
            /\ (d.kind = "string" /\ ~IsSome(d.parsed)) =>
                  Body = Bytes(d.text) /\ TypeIs(None)
            /\ (d.kind = "object" /\ ~nested) =>
                  Body = Bytes(d.form) /\ TypeIs(Some("application/x-www-form-urlencoded"))
            /\ (d.kind = "object" /\ nested) =>
                  Body = Bytes(d.json) /\ TypeIs(Some("application/json"))

C15_Witness ==
    /\ Dispatched /\ BodyMethod /\ OnOrderedPath
    /\ request.files = <<>> /\ ~IsSome(request.content) /\ IsSome(request.json)
    /\ request.data = Some(NestedObject)
    /\ Body = Bytes(NestedObject.json)
    /\ SentType = <<<<"content-type", <<"application/json">>>>>>

(* The request built from rq. *)
OutboundOf(rq) ==
    IF IsSome(effective_ordered_headers(rq))
    THEN Dispatch(OrderedHeaders(Unwrap(effective_ordered_headers(rq)), rq), rq)
    ELSE IF IsSome(rq.headers) THEN Dispatch(UnorderedHeaders(Unwrap(rq.headers), rq), rq)
    ELSE Dispatch([headers |-> <<>>, orig_headermap |-> <<>>], rq)

(* C16: for a method other than POST, PUT and PATCH the outbound request   *)
(* (headers, wire-order descriptor, body) is the one built with no body    *)
(* arguments, whatever content, data, json and files are passed.           *)
C16_OtherMethodsIgnoreBody ==
    (Built /\ ~BodyMethod) =>
        Unwrap(sent) = OutboundOf([request EXCEPT !.content = None, !.data = None,
                                                  !.json = None, !.files = <<>>])

(* C17: a file entry whose MIME string does not parse makes the request    *)
(* fail with an EncodingError; the request is not dispatched.              *)
C17_BadMimeFails ==
    (Built /\ BodyMethod
       /\ \E i \in 1..Len(request.files) :
             /\ request.files[i][2].py = "tuple" /\ request.files[i][2].data = "bytes"
             /\ IsSome(request.files[i][2].mime)
             /\ ~MimeParses(Unwrap(request.files[i][2].mime))) =>
        Unwrap(sent).status = "EncodingError"

(* The part the claim describes for an entry of the files dict; a filename *)
(* or a MIME type that was not given is left open.                         *)
PartFits(part, entry) ==
    /\ part.part = "file"
    /\ part.name = entry[1]
    /\ entry[2].py = "tuple" => part.filename = Some(entry[2].filename)
    /\ (entry[2].py = "tuple" /\ IsSome(entry[2].mime)) => part.mime = entry[2].mime

(* C18: on POST/PUT/PATCH with a file entry and an object-valued data, the *)
(* multipart form is one text field per data entry (name the key, value    *)
(* the entry's value) followed by one file part per file entry with its    *)
(* field name, the filename given and, when given, the MIME type given.    *)
C18_MultipartFieldsThenFiles ==
    (Dispatched /\ BodyMethod /\ request.files # <<>>
       /\ IsSome(request.data) /\ Unwrap(request.data).kind = "object") =>
        LET fields == Unwrap(request.data).fields
            n == Len(fields)
        IN  /\ Body.kind = "multipart"
            /\ Len(Body.form) = n + Len(request.files)
            /\ \A i \in 1..n :
                  /\ Body.form[i].part = "text"
                  /\ Body.form[i].name = fields[i][1]
                  /\ Body.form[i].value = fields[i][2].s
            /\ \A i \in 1..Len(request.files) : PartFits(Body.form[n + i], request.files[i])

----------------------------------------------------------------------------
(* Claims about per-request overrides *)

Carries(h, m) == \A i \in 1..Len(m) : \E j \in 1..Len(h) : h[j] = <<to_lowercase(m[i][1]), m[i][2]>>

DefaultAuthentication ==
    IF IsSome(auth) THEN <<[scheme |-> "basic", credential |-> Unwrap(auth)]>>
    ELSE IF IsSome(auth_bearer) THEN <<[scheme |-> "bearer", credential |-> Unwrap(auth_bearer)]>>
    ELSE <<>>

ParamsApplied ==
    Unwrap(sent).query = IF IsSome(request.params) THEN request.params ELSE params

TimeoutApplied ==
    Unwrap(sent).timeout = IF IsSome(request.timeout) THEN request.timeout ELSE timeout

AuthApplied ==
    /\ IsSome(request.auth) =>
          Unwrap(sent).auth = <<[scheme |-> "basic", credential |-> Unwrap(request.auth)]>>
    /\ (~IsSome(request.auth) /\ ~IsSome(request.auth_bearer)) =>
          Unwrap(sent).auth = DefaultAuthentication

HeadersApplied == IsSome(request.headers) => Carries(Out, Unwrap(request.headers))

CookiesApplied ==
    IF IsSome(request.cookies)
    THEN SelectSeq(Out, LAMBDA e : e[1] = "cookie")
            = IF Unwrap(request.cookies) = <<>> THEN <<>>
              ELSE <<<<"cookie", CookieParts(Unwrap(request.cookies))>>>>
    ELSE \A i \in 1..Len(Out) :
            Out[i][1] = "cookie" =>
                Out[i][2] = CookieParts(get_all_cookies(cookie_jar, deleted_cookies))

(* C19: for params, headers, cookies, auth and timeout, in every client    *)
(* configuration, a value passed to request() is the one applied to the    *)
(* request, and the client default is applied only when none is passed.    *)
C19_PerRequestValueApplied ==
    Built =>
        /\ ParamsApplied
        /\ TimeoutApplied
        /\ AuthApplied
        /\ HeadersApplied
        /\ CookiesApplied

BothOrdered == IsSome(request.ordered_headers) /\ IsSome(ordered_headers)

(* C20: with request-level and client-level ordered headers, the request-  *)
(* level map alone is the ordering input and no entry of the client-level  *)
(* map is emitted; with the client-level map alone, it is the input.       *)
C20_RequestOrderedReplacesClient ==
    Built =>
        /\ BothOrdered =>
              /\ Carries(Out, SelectSeq(Unwrap(request.ordered_headers),
                                        LAMBDA e : to_lowercase(e[1]) \notin Skipped \cup {"host"}))
              /\ \A i \in 1..Len(Unwrap(request.ordered_headers)) :
                    Unwrap(request.ordered_headers)[i][1] = "Host" =>
                        Out[1] = <<"host", Unwrap(request.ordered_headers)[i][2]>>
              /\ \A i \in 1..Len(Out) : \A j \in 1..Len(Unwrap(ordered_headers)) :
                    Out[i][2] # Unwrap(ordered_headers)[j][2]
        /\ (~IsSome(request.ordered_headers) /\ IsSome(ordered_headers)) =>
              /\ Carries(Out, Unwrap(ordered_headers))
              /\ SelectSeq(Out, LAMBDA e : e[1] \notin {"cookie", "content-length", "content-type"})
                    = to_headermap(Unwrap(ordered_headers))

C20_Witness ==
    /\ Built
    /\ BothOrdered
    /\ request.ordered_headers = Some(<<<<"X-B", <<"v:X-B">>>>>>)
    /\ Out = <<<<"x-b", <<"v:X-B">>>>>>

----------------------------------------------------------------------------
(* C21: every request carries at most one authentication: basic when a     *)
(* basic credential is in effect (passed to request() or the client        *)
(* default), otherwise bearer when a token is in effect; basic and bearer  *)
(* are never both attached.                                                *)
BasicInEffect == IF IsSome(request.auth) THEN request.auth ELSE auth
BearerInEffect == IF IsSome(request.auth_bearer) THEN request.auth_bearer ELSE auth_bearer

C21_AtMostOneAuthentication ==
    Built =>
        /\ Len(Unwrap(sent).auth) <= 1
        /\ IsSome(BasicInEffect) =>
              Unwrap(sent).auth = <<[scheme |-> "basic", credential |-> Unwrap(BasicInEffect)]>>
        /\ (~IsSome(BasicInEffect) /\ IsSome(BearerInEffect)) =>
              Unwrap(sent).auth = <<[scheme |-> "bearer", credential |-> Unwrap(BearerInEffect)]>>
        /\ (~IsSome(BasicInEffect) /\ ~IsSome(BearerInEffect)) => Unwrap(sent).auth = <<>>

(* A token passed to request() on a client with a default basic            *)
(* credential: the request carries the basic credential alone.             *)
C21_Witness ==
    /\ Built
    /\ request.auth = None /\ request.auth_bearer = Some("token2")
    /\ auth = Some(<<"user", "pw">>)
    /\ Unwrap(sent).auth = <<[scheme |-> "basic", credential |-> <<"user", "pw">>]>>

----------------------------------------------------------------------------
(* Claims about headers_update and ordered_headers_update *)

Updates == {"headers_update", "ordered_headers_update"}
Updated == setter.op \in Updates
MapBefore ==
    IF setter.op = "headers_update" THEN Unwrap(setter.config_before).headers
    ELSE Unwrap(setter.config_before).ordered_headers
MapAfter == IF setter.op = "headers_update" THEN headers ELSE ordered_headers

ValueIn(m, k) == m[CHOOSE i \in 1..Len(m) : m[i][1] = k][2]

(* E with the values of M's keys replaced in place, then M's other entries. *)
Merged(E, M) ==
    [i \in 1..Len(E) |-> IF E[i][1] \in MapKeys(M) THEN <<E[i][1], ValueIn(M, E[i][1])>> ELSE E[i]]
        \o SelectSeq(M, LAMBDA e : e[1] \notin MapKeys(E))

(* C22: headers_update and ordered_headers_update with map M on an         *)
(* existing map E give a map in which every key of E keeps its position    *)
(* (its value replaced when M has the key) and the keys of M not in E      *)
(* follow in M's order; with no existing map the result is M; with None    *)
(* the map and the client handle are unchanged.                            *)
C22_UpdateMergesInPlace ==
    Updated =>
        IF IsSome(setter.arg)
        THEN MapAfter = IF IsSome(MapBefore)
                        THEN Some(Merged(Unwrap(MapBefore), Unwrap(setter.arg)))
                        ELSE setter.arg
        ELSE /\ MapAfter = MapBefore
             /\ Some(client) = setter.client_before
             /\ setter.pc = "idle" /\ setter.pending = None

C22_Witness ==
    /\ setter.op = "headers_update" /\ setter.pc = "idle"
    /\ MapBefore = Some(<<<<"X-A", "1">>, <<"X-B", "1">>>>)
    /\ setter.arg = Some(<<<<"X-C", "2">>, <<"X-B", "2">>>>)
    /\ headers = Some(<<<<"X-A", "1">>, <<"X-B", "2">>, <<"X-C", "2">>>>)

(* No two entries of the map have names that are equal ignoring case. *)
CaseDistinct(m) ==
    \A i, j \in 1..Len(m) : i # j => to_lowercase(m[i][1]) # to_lowercase(m[j][1])

(* C23: header map keys are compared ignoring case: an update with a key   *)
(* that differs only in letter case from an existing key updates that      *)
(* entry, and never leaves two entries whose names are equal ignoring case. *)
C23_KeysCompareIgnoringCase ==
    (/\ Updated /\ IsSome(setter.arg) /\ IsSome(MapBefore)
     /\ CaseDistinct(Unwrap(setter.arg)) /\ CaseDistinct(Unwrap(MapBefore))) =>
        /\ CaseDistinct(Unwrap(MapAfter))
        /\ \A i \in 1..Len(Unwrap(MapBefore)) : \A j \in 1..Len(Unwrap(setter.arg)) :
              to_lowercase(Unwrap(MapBefore)[i][1]) = to_lowercase(Unwrap(setter.arg)[j][1]) =>
                  Unwrap(MapAfter)[i][2] = Unwrap(setter.arg)[j][2]

(* C23 holds for updates whose keys match existing keys exactly or not at  *)
(* all, ignoring case.                                                     *)
C23_ExactKeys ==
    (/\ Updated /\ IsSome(setter.arg) /\ IsSome(MapBefore)
     /\ \A i \in 1..Len(Unwrap(MapBefore)) : \A j \in 1..Len(Unwrap(setter.arg)) :
           to_lowercase(Unwrap(MapBefore)[i][1]) = to_lowercase(Unwrap(setter.arg)[j][1]) =>
               Unwrap(MapBefore)[i][1] = Unwrap(setter.arg)[j][1]
     /\ CaseDistinct(Unwrap(setter.arg)) /\ CaseDistinct(Unwrap(MapBefore))) =>
        CaseDistinct(Unwrap(MapAfter))

----------------------------------------------------------------------------
(* C24: in every configuration state, set_impersonate with an unrecognised *)
(* name, set_impersonate_os with an unrecognised OS name (also when no     *)
(* impersonation target is set) and set_proxy with a malformed URL each    *)
(* fail with a ConfigError.                                                *)
BadValue ==
    \/ setter.op = "set_impersonate" /\ ~EmulationFromStrOk(Unwrap(setter.arg))
    \/ setter.op = "set_impersonate_os" /\ ~EmulationOSFromStrOk(Unwrap(setter.arg))
    \/ setter.op = "set_proxy" /\ ~ProxyAllOk(Unwrap(setter.arg))

C24_BadValueFails == BadValue => setter.status = "ConfigError"

(* C24 holds for every bad value but an OS name given while no             *)
(* impersonation target is set.                                            *)
C24_BadValueFailsWithTarget ==
    (BadValue /\ ~(setter.op = "set_impersonate_os" /\ impersonate = None)) =>
        setter.status = "ConfigError"

----------------------------------------------------------------------------
(* Claims about the cookie jar and its tombstones *)

JarNames == {cookie_jar[i].name : i \in 1..Len(cookie_jar)}

(* C25: after clear_cookies returns, get_all_cookies() is empty and        *)
(* get_cookie(n) is None for every name n that was in the jar under any    *)
(* (domain, path); every such name is in the tombstone set.                *)
C25_ClearHidesEveryName ==
    call.op = "clear_cookies" =>
        /\ get_all_cookies(cookie_jar, deleted_cookies) = <<>>
        /\ call.names = JarNames
        /\ \A n \in JarNames :
              /\ get_cookie(cookie_jar, deleted_cookies, n) = None
              /\ n \in deleted_cookies

(* The jar still holds the live record of a under another domain and of b  *)
(* under the default one was replaced: both are hidden.                    *)
C25_Witness ==
    /\ call.op = "clear_cookies"
    /\ call.names = {"a", "b"}
    /\ \E i \in 1..Len(cookie_jar) :
          cookie_jar[i].name = "a" /\ cookie_jar[i].domain = "example.com" /\ ~cookie_jar[i].expired
    /\ get_all_cookies(cookie_jar, deleted_cookies) = <<>>

----------------------------------------------------------------------------
(* C26: in every handle built at construction or by a rebuild, the         *)
(* client-level headers map is installed as default headers exactly when   *)
(* no client-level ordered_headers map is set; when ordered_headers is     *)
(* set, neither it nor the headers map is baked into the handle.           *)
InstalledFrom(handle, cfg) ==
    /\ IsSome(handle.default_headers) <=> (IsSome(cfg.headers) /\ ~IsSome(cfg.ordered_headers))
    /\ IsSome(handle.default_headers) =>
          /\ Len(Unwrap(handle.default_headers)) = Len(Unwrap(cfg.headers))
          /\ \A i \in 1..Len(Unwrap(cfg.headers)) :
                Unwrap(handle.default_headers)[i]
                    = <<to_lowercase(Unwrap(cfg.headers)[i][1]), Unwrap(cfg.headers)[i][2]>>

----------------------------------------------------------------------------
(* C27: whenever a handle is built (at construction or by a rebuild) with  *)
(* verify on and a ca_cert_file naming a readable file, the handle's trust *)
(* store is loaded from that file rather than the built-in roots, whatever *)
(* clients were built earlier in the process; when the file is unreadable  *)
(* the built-in roots are used and the build still succeeds.               *)
VerifyOn == verify = None \/ verify = Some(TRUE)

C27_TrustStoreFromFile ==
    (VerifyOn /\ IsSome(ca_cert_file)) =>
        /\ tls.cert_verification
        /\ tls.cert_store = IF FsReadOk(Unwrap(ca_cert_file)) THEN ca_cert_file
                            ELSE Some(BuiltInRoots)
        /\ setter.status = "Ok"

(* C27 holds for the first client of a process, through its rebuilds. *)
C27_FirstClientOfProcess ==
    (VerifyOn /\ IsSome(ca_cert_file) /\ builds - calls = 1) =>
        tls.cert_store = IF FsReadOk(Unwrap(ca_cert_file)) THEN ca_cert_file
                         ELSE Some(BuiltInRoots)

----------------------------------------------------------------------------
(* Claims about the cookies of a request *)

(* The name=value parts of the cookie entries of a header list, in order. *)
RECURSIVE PartsOf(_)
PartsOf(h) ==
    IF h = <<>> THEN <<>>
    ELSE (IF Head(h)[1] = "cookie" THEN Head(h)[2] ELSE <<>>) \o PartsOf(Tail(h))

BuildsCookies == OnOrderedPath \/ IsSome(request.headers)

CookieSet ==
    IF IsSome(request.cookies) THEN Unwrap(request.cookies)
    ELSE get_all_cookies(cookie_jar, deleted_cookies)

(* C28: the effective cookie set of a request is the cookies map passed to *)
(* request() when there is one, otherwise the jar's visible cookies        *)
(* (get_all_cookies); so a cookie whose name is tombstoned is never part   *)
(* of the cookie header(s) built from the jar.                             *)
C28_EffectiveCookies ==
    Built =>
        /\ BuildsCookies =>
              PartsOf(Out) = [i \in 1..Len(CookieSet) |-> CookiePair(CookieSet[i][1], CookieSet[i][2])]
        /\ ~IsSome(request.cookies) =>
              \A n \in deleted_cookies, v \in CookieValues \cup {""} :
                  \A i \in 1..Len(PartsOf(Out)) : PartsOf(Out)[i] # CookiePair(n, v)

(* a is tombstoned while its record under another domain is still in the   *)
(* jar; the request carries b alone.                                       *)
C28_Witness ==
    /\ Built /\ OnOrderedPath /\ request.cookies = None
    /\ "a" \in deleted_cookies
    /\ \E i \in 1..Len(cookie_jar) : cookie_jar[i].name = "a" /\ ~cookie_jar[i].expired
    /\ PartsOf(Out) = <<"b=1">>

----------------------------------------------------------------------------
(* C29: concurrent cookie operations on one name are linearizable: when    *)
(* set_cookie(n, v) and delete_cookie(n) (or clear_cookies) run            *)
(* concurrently, the state after both return is that of one of the two     *)
(* sequential orders, so get_cookie(n) is v or None and never the empty    *)
(* value of the expired record.                                            *)
AllReturned == \A t \in CookieThreads : cookie_calls[t].pc \in {"idle", "returned"}

SetAgainst(t, u) ==
    /\ InCall(t, "set_cookie", "returned")
    /\ \/ InCall(u, "delete_cookie", "returned") /\ cookie_calls[u].name = cookie_calls[t].name
       \/ InCall(u, "clear_cookies", "returned")
    /\ \A w \in CookieThreads \ {t, u} : cookie_calls[w].pc = "idle"

Reads(n) ==
    <<get_cookie(cookie_jar, deleted_cookies, n),
      MapGet(get_all_cookies(cookie_jar, deleted_cookies), n)>>

C29_OneAfterTheOther ==
    \A t, u \in CookieThreads :
        (AllReturned /\ SetAgainst(t, u) /\ ~cookie_calls[t].overlapped) =>
            Reads(cookie_calls[t].name) \in
                {<<Some(cookie_calls[t].value), Some(cookie_calls[t].value)>>, <<None, None>>}

----------------------------------------------------------------------------
(* C30: after set_cookie(n, v, domain, path) returns with no concurrent    *)
(* operation, get_cookie(n) returns v and get_all_cookies() maps n to v,   *)
(* whatever operations came before (delete_cookie(n), clear_cookies, sets  *)
(* of n under another domain or path).                                     *)
C30_SetThenReadsValue ==
    call.op = "set_cookie" =>
        \A n \in call.names : Reads(n) = <<Some(call.value), Some(call.value)>>

(* C30 holds while the jar has one record of the name. *)
C30_SingleRecord ==
    (/\ call.op = "set_cookie"
     /\ \A i, j \in 1..Len(cookie_jar) :
           cookie_jar[i].name = cookie_jar[j].name => i = j) =>
        \A n \in call.names : Reads(n) = <<Some(call.value), Some(call.value)>>

----------------------------------------------------------------------------
(* C31: in every reachable state the two read operations agree: for every  *)
(* name n, get_cookie(n) equals the value get_all_cookies() holds for n,   *)
(* and is None exactly when get_all_cookies() has no key n, also when the  *)
(* jar holds n under several (domain, path) scopes.                        *)
SeveralScopes(n) ==
    \E i, j \in 1..Len(cookie_jar) :
        i # j /\ cookie_jar[i].name = n /\ cookie_jar[j].name = n

C31_ReadsAgree ==
    \A n \in CookieNames :
        get_cookie(cookie_jar, deleted_cookies, n) =
            MapGet(get_all_cookies(cookie_jar, deleted_cookies), n)

(* C31 holds for the names the jar holds under one scope. *)
C31_OneScope ==
    \A n \in CookieNames :
        ~SeveralScopes(n) =>
            get_cookie(cookie_jar, deleted_cookies, n) =
                MapGet(get_all_cookies(cookie_jar, deleted_cookies), n)

----------------------------------------------------------------------------
(* C32: a cookie header of the ordered header input is deferred, never     *)
(* lost: whenever the input has a cookie header, the output carries at     *)
(* least one cookie header, made of the effective cookies or, when there   *)
(* are none, of the input's own value; also when a per-request cookies map *)
(* is supplied but empty.                                                  *)
InputCookie == Input[Max(KeysLike("cookie"))][2]

CookieValuesOut ==
    LET entries == SelectSeq(Out, LAMBDA e : e[1] = "cookie")
    IN  [i \in 1..Len(entries) |-> entries[i][2]]

C32_InputCookieNeverLost ==
    (OnOrderedPath /\ KeysLike("cookie") # {}) =>
        /\ Positions("cookie") # {}
        /\ LET parts == IF NonEmptyCookies THEN Pairs ELSE InputCookie
           IN  CookieValuesOut = IF should_add_cookies_separately
                                 THEN [i \in 1..Len(parts) |-> <<parts[i]>>]
                                 ELSE <<parts>>

(* C32 holds unless the cookies argument is an empty map. *)
C32_UnlessEmptyMap ==
    (OnOrderedPath /\ KeysLike("cookie") # {} /\ request.cookies # Some(<<>>)) =>
        /\ Positions("cookie") # {}
        /\ LET parts == IF NonEmptyCookies THEN Pairs ELSE InputCookie
           IN  CookieValuesOut = IF should_add_cookies_separately
                                 THEN [i \in 1..Len(parts) |-> <<parts[i]>>]
                                 ELSE <<parts>>

----------------------------------------------------------------------------
(* C33: on the ordered-headers path the wire-order descriptor and the      *)
(* final header sequence agree: they name the same headers, the same       *)
(* number of times, in the same order, in merged and in split style.       *)
WireOrder == Unwrap(sent).orig_headermap

C33_WireOrderAgrees ==
    OnOrderedPath =>
        [i \in 1..Len(WireOrder) |-> to_lowercase(WireOrder[i])] = NamesOf(Out)

(* C33 holds when the copied keys of the input differ in more than letter  *)
(* case.                                                                   *)
C33_DistinctNames ==
    (/\ OnOrderedPath
     /\ \A i, j \in 1..Len(Input) :
           to_lowercase(Input[i][1]) = to_lowercase(Input[j][1]) =>
               i = j \/ to_lowercase(Input[i][1]) \in Skipped) =>
        [i \in 1..Len(WireOrder) |-> to_lowercase(WireOrder[i])] = NamesOf(Out)

----------------------------------------------------------------------------
(* C34: a rebuild, successful or failed, leaves the cookie store           *)
(* untouched: the jar and the tombstone set are the same after any setter  *)
(* call as before it, the new handle is wired to the same jar as the one   *)
(* before, and get_cookie and get_all_cookies return the same results      *)
(* across rebuilds.                                                        *)
SetterStep == setter' # setter \/ calls' # calls \/ client' # client

StoreKept ==
    /\ cookie_jar' = cookie_jar
    /\ deleted_cookies' = deleted_cookies
    /\ get_all_cookies(cookie_jar', deleted_cookies') = get_all_cookies(cookie_jar, deleted_cookies)
    /\ \A n \in CookieNames :
          get_cookie(cookie_jar', deleted_cookies', n) = get_cookie(cookie_jar, deleted_cookies, n)

SameProvider ==
    setter.op # "new" =>
        LET before == Unwrap(setter.client_before).cookie_provider
        IN  /\ client.cookie_provider = before
            /\ IsSome(setter.pending) => Unwrap(setter.pending).cookie_provider = before
            /\ UnwrapOr(cookie_store, TRUE) => before = Some(OwnJar)

C34_RebuildKeepsCookieStore == []SameProvider /\ [][SetterStep => StoreKept]_vars

(* A failed and then a successful rebuild on a client whose jar holds      *)
(* records and whose tombstone set holds names.                            *)
C34_Witness ==
    /\ calls = 2 /\ builds = 2
    /\ SetterReturned("Ok")
    /\ client.id = 2
    /\ client.cookie_provider = Some(OwnJar)
    /\ deleted_cookies # {}
    /\ \E i \in 1..Len(cookie_jar) : ~cookie_jar[i].expired

----------------------------------------------------------------------------
(* C35: request() never modifies the client's stored configuration (auth,  *)
(* auth_bearer, params, headers, ordered_headers, timeout, proxy,          *)
(* impersonation, split_cookies), the tombstone set or the shared client   *)
(* handle, whatever per-request overrides are passed and whether the       *)
(* request succeeds or fails.                                              *)
Stored ==
    <<auth, auth_bearer, params, headers, ordered_headers, timeout, proxy,
      impersonate, impersonate_os, split_cookies>>

RequestStep == sent' # sent \/ req' # req

C35_RequestKeepsConfig ==
    [][RequestStep => UNCHANGED <<Stored, deleted_cookies, client>>]_vars

(* A request with overrides of auth, timeout, cookies and ordered headers  *)
(* has failed on its body, on a client with defaults of its own, a         *)
(* tombstone and a rebuilt handle, while another request is being sent.    *)
C35_Witness ==
    /\ Built /\ Unwrap(sent).status = "IoError"
    /\ IsSome(request.auth) /\ IsSome(auth) /\ request.auth # auth
    /\ IsSome(request.timeout) /\ IsSome(timeout) /\ request.timeout # timeout
    /\ IsSome(request.ordered_headers) /\ IsSome(ordered_headers)
    /\ request.ordered_headers # ordered_headers
    /\ IsSome(request.cookies)
    /\ deleted_cookies # {}
    /\ client.id > 1
    /\ \E c \in Callers : req[c].pc = "done"

----------------------------------------------------------------------------
(* C36: clients of one process are isolated in their trust store: the      *)
(* trust store of a client built with verify on and no ca_cert_file is the *)
(* one it gets when it is the only client of the process, whether or not   *)
(* another client was built earlier with a ca_cert_file and in whatever    *)
(* order the clients were built.                                           *)
StoreWhenAlone == Some(InitCertStore(SetCaBundle(EnvCaBundle, None)))

C36_TrustStoreIsolated ==
    (VerifyOn /\ ca_cert_file = None) => tls.cert_store = StoreWhenAlone

(* C36 holds for the first client of a process, through its rebuilds. *)
C36_FirstClientOfProcess ==
    (VerifyOn /\ ca_cert_file = None /\ builds - calls = 1) => tls.cert_store = StoreWhenAlone

====
